---- MODULE Spec2Model ----
(***************************************************************************)
(* The streaming, tool-calling chat engine of the desktop application:     *)
(* the main-process IPC handlers chat:ai-send-stream / chat:ai-abort and   *)
(* the conversation store (src/src/main/main.ts), driven by the renderer's *)
(* chat module (src/src/renderer/modules/chat.js).                         *)
(*                                                                         *)
(* JavaScript runs one handler at a time and switches handlers only at an  *)
(* await, so every action below is the code between two awaits of one      *)
(* handler.  IPC between renderer and main is delivered in order; the      *)
(* model delivers a notification to the renderer in the step that sends    *)
(* it.                                                                     *)
(***************************************************************************)
EXTENDS Integers, Sequences, FiniteSets, TLC

\* ---------------------------------------------------------------- bounds
\* chat:ai-send-stream invocations the user makes in one run
MaxSends == 2
\* conversations created in one run (randomUUID gives each a fresh id)
MaxConvs == 1
\* model responses that ask for tools, over one run
MaxToolTurns == 1
\* choices of the environment other than the plain ones (a response with
\* several blocks, a failing tool), over one run
MaxVariety == 2
\* the same three budgets for the run with one long exchange
LongSends == 1
LongConvs == 1
LongVariety == 1

\* ------------------------------------------------------ program constants
MAX_TURNS == 20

InvIds == 1..(IF MaxSends > LongSends THEN MaxSends ELSE LongSends)
ConvIds == 1..(IF MaxConvs > LongConvs THEN MaxConvs ELSE LongConvs)

VARIABLES
  store,                  \* ChatStorage: the record on disk of each id
  nextConvId,             \* the next fresh conversation id
  chatAbortController,    \* 0 (null), or the invocation whose controller it is
  inv,                    \* one record per chat:ai-send-stream invocation
  notif,                  \* per invocation, the notifications it has sent
  nextInv,                \* the next invocation to start
  chatActiveConversation, \* uiState.chatActiveConversation, 0 is null
  chatSending,            \* uiState.chatSending; the abort button shows iff TRUE
  inputDisabled,          \* elements.chatInput.disabled (= chatSendBtn.disabled)
  systemLog,              \* the lines appendSystemLog has written
  budget,                 \* what is left of the bounds above
  toolCall,               \* one call of executeTool, taken on its own
  decoder,                \* one run of the SSE path of streamSingleTurn, on its own
  storage,                \* the files of ChatStorage and the calls of its methods
  chunks,                 \* one response body read in chunks, on its own
  dash,                   \* the embedded dashboard server and the calls that start it
  procs                   \* the children of ProcessManager and the calls of stop

\* the functions and the store that are also studied on their own
calls == <<toolCall, decoder, storage, chunks, dash, procs>>

\* the chat engine and the renderer
chat == <<store, nextConvId, chatAbortController, inv, notif, nextInv,
          chatActiveConversation, chatSending, inputDisabled, systemLog, budget>>

vars == <<chat, calls>>

\* ------------------------------------------------------------ data model
TextBlock == [type |-> "text", text |-> "a"]
ThinkingBlock == [type |-> "thinking", thinking |-> "r"]
ToolUseBlock(id) == [type |-> "tool_use", id |-> id, name |-> "bash"]
ToolResultBlock(id, isError) ==
  [type |-> "tool_result", tool_use_id |-> id, is_error |-> isError]

\* content: string | ContentBlock[]
StringContent(s) == [string |-> s]
BlockContent(bs) == [blocks |-> bs]
IsBlockContent(c) == DOMAIN c = {"blocks"}
AiChatMessage(role, content) == [role |-> role, content |-> content]

\* what the user typed in the i-th send
UserText(i) == IF i = 1 THEN "u1" ELSE IF i = 2 THEN "u2" ELSE "u3"

NoRecord == [present |-> FALSE, messages |-> <<>>]
Stored(ms) == [present |-> TRUE, messages |-> ms]

RECURSIVE SelectSeqBy(_, _)
\* blocks.filter(b => b.type === t)
SelectSeqBy(s, t) ==
  IF s = <<>> THEN <<>>
  ELSE IF Head(s).type = t THEN <<Head(s)>> \o SelectSeqBy(Tail(s), t)
  ELSE SelectSeqBy(Tail(s), t)

ToolUseBlocksOf(blocks) == SelectSeqBy(blocks, "tool_use")

\* --------------------------------------------------------------- executeTool
\* the names of the switch of executeTool
ToolNames ==
  {"bash", "read_file", "write_file", "list_directory", "search_files", "grep"}

\* a name the switch does not know
OtherTool == "deploy"

\* the input of a call: null, a value that is no map (a string), or a map that
\* holds some of the fields the tools look up
NullInput == [kind |-> "null", fields |-> {}]
StringInput == [kind |-> "string", fields |-> {}]
MapInput(fields) == [kind |-> "map", fields |-> fields]

ToolInputs ==
  {NullInput, StringInput}
    \cup {MapInput(f) : f \in SUBSET {"command", "path", "pattern"}}

\* String(input.f ?? ''): reading a property of null throws a TypeError, a
\* value that is no map, or has no f, gives the default
Get(input, f) ==
  IF input.kind = "null"
  THEN [threw |-> TRUE, value |-> ""]
  ELSE [threw |-> FALSE, value |-> IF f \in input.fields THEN "v" ELSE ""]

\* how the file-system or child-process call of the tool ends
Settled(stdout) == [ok |-> TRUE, stdout |-> stdout, code |-> "0", message |-> ""]
Rejected(code) ==
  [ok |-> FALSE, stdout |-> "", code |-> code, message |-> "Command failed"]

SysOutcomes ==
  {Settled("out"), Settled("")}
    \cup {Rejected(c) : c \in {"1", "2", "ETIMEDOUT",
                               "ERR_CHILD_PROCESS_STDIO_MAXBUFFER"}}

\* how a call ends: a value {output, isError}, or an exception; ops counts the
\* file-system and process operations it began
Returned(output, isError, ops) ==
  [threw |-> FALSE, output |-> output, isError |-> isError, ops |-> ops]
Threw(message, ops) ==
  [threw |-> TRUE, output |-> message, isError |-> FALSE, ops |-> ops]

\* faulty variant, not the code: any failure of grep counts as no match
GrepAnyFailure(sys) == ~sys.ok

\* the catch around grep: the rejection whose code is 1
GrepFoundNothing(sys) == ~sys.ok /\ sys.code = "1"

\* faulty variant, not the code: the answer for an unknown name is no error
UnknownToolNoError(name) == Returned("Unknown tool: " \o name, FALSE, 0)

\* the default of the switch
UnknownTool(name) == Returned("Unknown tool: " \o name, TRUE, 0)

\* the switch of executeTool, inside its try
executeToolBody(name, input, sys) ==
  LET command == Get(input, "command")
      path == Get(input, "path")
      pattern == Get(input, "pattern")
      TypeError == Threw("Cannot read properties of null", 0)
      \* await of the system call: its output, or '' replaced by a default
      Await(default) ==
        IF sys.ok
        THEN Returned(IF sys.stdout = "" THEN default ELSE sys.stdout, FALSE, 1)
        ELSE Threw(sys.message, 1)
  IN CASE name = "bash" ->
            IF command.threw THEN TypeError
            ELSE IF command.value = "" THEN Returned("No command provided", TRUE, 0)
            ELSE Await("(no output)")
       [] name = "read_file" ->
            IF path.threw THEN TypeError
            ELSE IF path.value = "" THEN Returned("No path provided", TRUE, 0)
            ELSE Await("")
       [] name = "write_file" ->
            IF path.threw THEN TypeError
            ELSE IF path.value = "" THEN Returned("No path provided", TRUE, 0)
            ELSE IF sys.ok THEN Returned("Wrote 0 characters to v", FALSE, 1)
            ELSE Threw(sys.message, 1)
       [] name = "list_directory" ->
            IF path.threw THEN TypeError ELSE Await("(empty directory)")
       [] name = "search_files" ->
            IF pattern.threw THEN TypeError
            ELSE IF pattern.value = "" THEN Returned("No pattern provided", TRUE, 0)
            ELSE Await("No files found")
       [] name = "grep" ->
            IF pattern.threw THEN TypeError
            ELSE IF pattern.value = "" THEN Returned("No pattern provided", TRUE, 0)
            ELSE IF GrepFoundNothing(sys)
                 THEN Returned("No matches found", FALSE, 1)
            ELSE Await("No matches found")
       [] OTHER -> UnknownTool(name)

\* faulty variant, not the code: the switch stands outside the try
executeToolNoCatch(name, input, sys) == executeToolBody(name, input, sys)

\* executeTool: whatever the switch throws is caught and returned as an error
executeTool(name, input, sys) ==
  LET r == executeToolBody(name, input, sys)
  IN IF r.threw THEN Returned(r.output, TRUE, r.ops) ELSE r

NoCall ==
  [state |-> "none", name |-> "", input |-> NullInput, sys |-> Settled(""),
   result |-> Returned("", FALSE, 0)]

\* ------------------------------------------- the SSE path of streamSingleTurn
\* content blocks with their content
TextOf(text) == [type |-> "text", text |-> text]
ThinkingOf(thinking) == [type |-> "thinking", thinking |-> thinking]
ToolUseOf(id, name, input) ==
  [type |-> "tool_use", id |-> id, name |-> name, input |-> input]

\* the values JSON.parse gives for the texts of a tool input
JsonMap(keys) == [kind |-> "object", keys |-> keys]
JsonNull == [kind |-> "null", keys |-> {}]
EmptyMap == JsonMap({})

\* an SSE event as JSON.parse gives it: kind is content_block.type or
\* delta.type, text is content_block.text, delta.text, delta.partial_json or
\* delta.thinking
SseEvent(type, index, kind, text, id, name) ==
  [type |-> type, index |-> index, kind |-> kind, text |-> text, id |-> id,
   name |-> name]

NoEvent == SseEvent("", 0, "", "", "", "")

\* a line of the stream: whether it starts with 'data: ', and what follows:
\* nothing but blanks, '[DONE]', a text that is not JSON, the JSON null, or the
\* JSON object of an event
SseLine(prefix, kind, event) == [prefix |-> prefix, kind |-> kind, event |-> event]

NoLine == SseLine(FALSE, "", NoEvent)

\* the locals of the SSE path when reading begins; path, lines, fed and last
\* record which path the response took, how many lines were read, the JSON
\* payloads among them and the line read last
FreshDecoder ==
  [state |-> "reading", path |-> "", blocks |-> <<>>, notes |-> <<>>,
   currentBlockIndex |-> -1, currentBlockType |-> "", textAccum |-> "",
   toolJsonAccum |-> "", currentToolId |-> "", currentToolName |-> "",
   lines |-> 0, fed |-> <<>>, last |-> NoLine]

NoDecoder == [FreshDecoder EXCEPT !.state = "none"]

\* --------------------------------------------------------------- ChatStorage
\* calls of get, save and delete in one run
MaxOps == 3

\* the ids of the conversations of a run
FileIds == {"c1", "c2"}

\* JavaScript values
Str(s) == [t |-> "string", v |-> s]
Num(digits) == [t |-> "number", v |-> digits]
Bool(b) == [t |-> "boolean", v |-> b]
JsNull == [t |-> "null", v |-> ""]
Undefined == [t |-> "undefined", v |-> ""]
Arr(items) == [t |-> "array", v |-> items]
\* an object: its keys with their values, in insertion order
Obj(members) == [t |-> "object", v |-> members]

\* the tokens of a JSON text
Tok(k, s) == [k |-> k, s |-> s]
Punct(c) == Tok("punct", c)

\* faulty variant, not the code: members that are false are left out as well
OmittedOrFalse(value) ==
  \/ value.t = "undefined"
  \/ value.t = "boolean" /\ ~value.v

\* JSON.stringify leaves out the members of an object that are undefined
Omitted(value) == value.t = "undefined"

RECURSIVE JsonStringify(_), StringifyItems(_), StringifyMembers(_, _)
\* JSON.stringify(value), as tokens
JsonStringify(value) ==
  CASE value.t = "string" -> <<Tok("string", value.v)>>
    [] value.t = "number" -> <<Tok("number", value.v)>>
    [] value.t = "boolean" -> <<Tok(IF value.v THEN "true" ELSE "false", "")>>
    [] value.t = "array" ->
         <<Punct("[")>> \o StringifyItems(value.v) \o <<Punct("]")>>
    [] value.t = "object" ->
         <<Punct("{")>> \o StringifyMembers(value.v, TRUE) \o <<Punct("}")>>
    [] OTHER -> <<Tok("null", "")>>

\* the items of an array, with commas between them
StringifyItems(items) ==
  IF items = <<>> THEN <<>>
  ELSE JsonStringify(Head(items))
         \o (IF Tail(items) = <<>> THEN <<>> ELSE <<Punct(",")>>)
         \o StringifyItems(Tail(items))

\* the members of an object that are not left out, with commas between them
StringifyMembers(members, first) ==
  IF members = <<>> THEN <<>>
  ELSE IF Omitted(Head(members)[2]) THEN StringifyMembers(Tail(members), first)
  ELSE (IF first THEN <<>> ELSE <<Punct(",")>>)
         \o <<Tok("string", Head(members)[1]), Punct(":")>>
         \o JsonStringify(Head(members)[2])
         \o StringifyMembers(Tail(members), FALSE)

\* what a parser returns: a value and the tokens after it, or a SyntaxError
Parsed(value, rest) == [ok |-> TRUE, value |-> value, rest |-> rest]
SyntaxError == [ok |-> FALSE, value |-> JsNull, rest |-> <<>>]

IsPunct(tokens, c) == tokens # <<>> /\ Head(tokens) = Punct(c)

RECURSIVE ParseValue(_), ParseItems(_, _), ParseMembers(_, _)
\* one JSON value at the head of the tokens
ParseValue(tokens) ==
  IF tokens = <<>> THEN SyntaxError
  ELSE LET h == Head(tokens)
           rest == Tail(tokens)
       IN CASE h.k = "string" -> Parsed(Str(h.s), rest)
            [] h.k = "number" -> Parsed(Num(h.s), rest)
            [] h.k = "true" -> Parsed(Bool(TRUE), rest)
            [] h.k = "false" -> Parsed(Bool(FALSE), rest)
            [] h.k = "null" -> Parsed(JsNull, rest)
            [] h = Punct("[") ->
                 IF IsPunct(rest, "]") THEN Parsed(Arr(<<>>), Tail(rest))
                 ELSE ParseItems(rest, <<>>)
            [] h = Punct("{") ->
                 IF IsPunct(rest, "}") THEN Parsed(Obj(<<>>), Tail(rest))
                 ELSE ParseMembers(rest, <<>>)
            [] OTHER -> SyntaxError

\* the items of an array after its '[' or a ',', up to its ']'
ParseItems(tokens, items) ==
  LET item == ParseValue(tokens) IN
  IF ~item.ok THEN SyntaxError
  ELSE IF IsPunct(item.rest, ",")
       THEN ParseItems(Tail(item.rest), Append(items, item.value))
  ELSE IF IsPunct(item.rest, "]")
       THEN Parsed(Arr(Append(items, item.value)), Tail(item.rest))
  ELSE SyntaxError

\* the members of an object after its '{' or a ',', up to its '}'
ParseMembers(tokens, members) ==
  IF Len(tokens) < 2 \/ tokens[1].k # "string" \/ tokens[2] # Punct(":")
  THEN SyntaxError
  ELSE LET member == ParseValue(SubSeq(tokens, 3, Len(tokens)))
           all == Append(members, <<tokens[1].s, member.value>>)
       IN IF ~member.ok THEN SyntaxError
          ELSE IF IsPunct(member.rest, ",")
               THEN ParseMembers(Tail(member.rest), all)
          ELSE IF IsPunct(member.rest, "}")
               THEN Parsed(Obj(all), Tail(member.rest))
          ELSE SyntaxError

\* JSON.parse(raw): the value of the whole text, or a SyntaxError
JsonParseTokens(tokens) ==
  LET parsed == ParseValue(tokens)
  IN IF parsed.ok /\ parsed.rest = <<>> THEN parsed ELSE SyntaxError

\* an AiChatMessage and an AiConversation as JavaScript values
MessageValue(role, content) == Obj(<< <<"role", Str(role)>>, <<"content", content>> >>)

ConversationValue(id, messages) ==
  Obj(<< <<"id", Str(id)>>, <<"title", Str("New conversation")>>,
         <<"model", Str("claude")>>, <<"messages", Arr(messages)>>,
         <<"createdAt", Num("1")>>, <<"updatedAt", Num("2")>> >>)

\* the messages of one turn with a tool: text and tool_use, then tool_result
ToolTurnMessages ==
  << MessageValue("user", Str("u1")),
     MessageValue("assistant",
       Arr(<< Obj(<< <<"type", Str("text")>>, <<"text", Str("a")>> >>),
              Obj(<< <<"type", Str("tool_use")>>, <<"id", Str("t1")>>,
                     <<"name", Str("bash")>>,
                     <<"input", Obj(<< <<"command", Str("ls")>> >>)>> >>) >>)),
     MessageValue("user",
       Arr(<< Obj(<< <<"type", Str("tool_result")>>, <<"tool_use_id", Str("t1")>>,
                     <<"content", Str("out")>>, <<"is_error", Bool(FALSE)>> >>) >>)) >>

\* the conversations a caller may save under an id
StoredConvs(id) ==
  {ConversationValue(id, <<>>), ConversationValue(id, ToolTurnMessages)}

\* a file of the history directory: whether its name exists, its content as
\* tokens, and which file it is (a name that is unlinked and created again is
\* another file)
NoFile == [exists |-> FALSE, data |-> <<>>, gen |-> 0]

\* what is not known of a conversation whose writers overlapped
Unknown == [t |-> "unknown", v |-> ""]

IdleOp ==
  [kind |-> "none", id |-> "", conv |-> JsNull, pc |-> "idle", result |-> JsNull,
   threw |-> FALSE, gen |-> 0, alone |-> TRUE, expect |-> Unknown, cand |-> {}]

\* files: the history directory; ops: the calls; settled: per id, what the
\* last writer that ran alone left (null: no file)
NoStorage ==
  [files |-> [id \in FileIds |-> NoFile], ops |-> [o \in 1..MaxOps |-> IdleOp],
   nextOp |-> MaxOps + 1, settled |-> [id \in FileIds |-> JsNull]]

FreshStorage == [NoStorage EXCEPT !.nextOp = 1]

Active(op) == op.pc \notin {"idle", "done"}

\* the calls that are writing or unlinking the file of id
WritersOn(id) ==
  {o \in 1..MaxOps : /\ Active(storage.ops[o]) /\ storage.ops[o].id = id
                     /\ storage.ops[o].kind \in {"save", "delete"}}

\* a call of save or delete of id begins: the calls of the same id that are
\* under way no longer run alone, and a get under way may see what it writes
Overlapped(ops, id, written) ==
  [o \in 1..MaxOps |->
     IF Active(ops[o]) /\ ops[o].id = id
     THEN [ops[o] EXCEPT !.alone = FALSE, !.cand = @ \cup {written}]
     ELSE ops[o]]

\* get(id), up to await readFile
GetStart ==
  /\ storage.nextOp <= MaxOps
  /\ \E id \in FileIds :
       LET writers == WritersOn(id)
           saves == {o \in writers : storage.ops[o].kind = "save"}
       IN storage' =
            [storage EXCEPT
               !.nextOp = @ + 1,
               !.ops[storage.nextOp] =
                 [IdleOp EXCEPT
                    !.kind = "get", !.id = id, !.pc = "read",
                    !.alone = (writers = {}),
                    !.expect = storage.settled[id],
                    !.cand = {storage.settled[id]}
                               \cup {storage.ops[o].conv : o \in saves}
                               \cup (IF writers = saves THEN {} ELSE {JsNull})]]
  /\ UNCHANGED <<chat, toolCall, decoder, chunks, dash, procs>>

\* get: readFile gives the content of the file, or fails when there is none;
\* JSON.parse of it; any exception gives null
GetRead(o) ==
  /\ storage.ops[o].kind = "get" /\ storage.ops[o].pc = "read"
  /\ LET file == storage.files[storage.ops[o].id]
         parsed == JsonParseTokens(file.data)
     IN storage' =
          [storage EXCEPT
             !.ops[o].pc = "done",
             !.ops[o].result = IF file.exists /\ parsed.ok THEN parsed.value
                               ELSE JsNull]
  /\ UNCHANGED <<chat, toolCall, decoder, chunks, dash, procs>>

\* save(conv), up to await writeFile
SaveStart ==
  /\ storage.nextOp <= MaxOps
  /\ \E id \in FileIds : \E conv \in StoredConvs(id) :
       storage' =
         [storage EXCEPT
            !.nextOp = @ + 1,
            !.ops = [Overlapped(storage.ops, id, conv) EXCEPT
                       ![storage.nextOp] =
                         [IdleOp EXCEPT !.kind = "save", !.id = id, !.conv = conv,
                                        !.pc = "open",
                                        !.alone = (WritersOn(id) = {})]]]
  /\ UNCHANGED <<chat, toolCall, decoder, chunks, dash, procs>>

\* writeFile opens the file for writing: it is created, or cut to length 0
SaveOpen(o) ==
  /\ storage.ops[o].kind = "save" /\ storage.ops[o].pc = "open"
  /\ LET id == storage.ops[o].id
         file == storage.files[id]
         gen == IF file.exists THEN file.gen ELSE file.gen + 1
     IN storage' =
          [storage EXCEPT
             !.files[id] = [exists |-> TRUE, data |-> <<>>, gen |-> gen],
             !.ops[o].pc = "write", !.ops[o].gen = gen]
  /\ UNCHANGED <<chat, toolCall, decoder, chunks, dash, procs>>

\* writeFile writes the text from the start of the file it opened, over what
\* the file holds by then, and save returns
SaveWrite(o) ==
  /\ storage.ops[o].kind = "save" /\ storage.ops[o].pc = "write"
  /\ LET op == storage.ops[o]
         file == storage.files[op.id]
         text == JsonStringify(op.conv)
         data == text \o SubSeq(file.data, Len(text) + 1, Len(file.data))
     IN storage' =
          [storage EXCEPT
             !.files[op.id] = IF file.exists /\ file.gen = op.gen
                              THEN [file EXCEPT !.data = data] ELSE file,
             !.ops[o].pc = "done",
             !.settled[op.id] = IF op.alone THEN op.conv ELSE Unknown]
  /\ UNCHANGED <<chat, toolCall, decoder, chunks, dash, procs>>

\* delete(id), up to await unlink
DeleteStart ==
  /\ storage.nextOp <= MaxOps
  /\ \E id \in FileIds :
       storage' =
         [storage EXCEPT
            !.nextOp = @ + 1,
            !.ops = [Overlapped(storage.ops, id, JsNull) EXCEPT
                       ![storage.nextOp] =
                         [IdleOp EXCEPT !.kind = "delete", !.id = id,
                                        !.pc = "unlink",
                                        !.alone = (WritersOn(id) = {})]]]
  /\ UNCHANGED <<chat, toolCall, decoder, chunks, dash, procs>>

\* faulty variant, not the code: the failure of unlink is not caught
DeleteUnlinkNoCatch(o) ==
  /\ storage.ops[o].kind = "delete" /\ storage.ops[o].pc = "unlink"
  /\ LET op == storage.ops[o] IN
       storage' =
         [storage EXCEPT
            !.files[op.id] = [@ EXCEPT !.exists = FALSE, !.data = <<>>],
            !.ops[o].pc = "done",
            !.ops[o].threw = ~storage.files[op.id].exists,
            !.settled[op.id] = IF op.alone THEN JsNull ELSE Unknown]
  /\ UNCHANGED <<chat, toolCall, decoder, chunks, dash, procs>>

\* delete: unlink removes the name; its failure when there is no such file is
\* caught, and delete returns
DeleteUnlink(o) ==
  /\ storage.ops[o].kind = "delete" /\ storage.ops[o].pc = "unlink"
  /\ LET op == storage.ops[o] IN
       storage' =
         [storage EXCEPT
            !.files[op.id] = [@ EXCEPT !.exists = FALSE, !.data = <<>>],
            !.ops[o].pc = "done",
            !.settled[op.id] = IF op.alone THEN JsNull ELSE Unknown]
  /\ UNCHANGED <<chat, toolCall, decoder, chunks, dash, procs>>

\* ------------------------------------------------ the body, read in chunks
\* lines of a response body
MaxStreamLines == 3

\* bytes of one chunk
MaxChunk == 3

\* the locals of the read loop before the first chunk: the bytes of the body,
\* how many of them were read and where the chunks ended; the byte the
\* TextDecoder holds back, sseBuffer, and the locals of the line loop
FreshChunks(stream) ==
  [state |-> "reading", stream |-> stream, pos |-> 0, cuts |-> {},
   pending |-> "", sseBuffer |-> <<>>, d |-> FreshDecoder]

NoChunks == [FreshChunks(<<>>) EXCEPT !.state = "none"]

\* ------------------------------------------------------ dashboard, children
\* calls of startDashboardRuntime, ensureDashboardRuntime and
\* stopDashboardRuntime in one run; each may create one server
MaxDashCalls == 3

DashCalls == 1..MaxDashCalls

\* the ports a caller may ask for
DashPorts == {3117, 3118}

DEFAULT_DASHBOARD_PORT == 3117

\* a DashboardServer: not yet made, created, started, stopped, or failed to start
NoServer == [status |-> "none", port |-> 0]

IdleDashCall == [pc |-> "idle", kind |-> "", port |-> 0, victim |-> 0, resume |-> ""]

\* dashboardRuntime.running and .port, dashboardServer (0 is null), the
\* servers made so far and the calls
FreshDash ==
  [state |-> "on", running |-> FALSE, port |-> DEFAULT_DASHBOARD_PORT,
   dashboardServer |-> 0, servers |-> [k \in DashCalls |-> NoServer],
   calls |-> [k \in DashCalls |-> IdleDashCall], nextCall |-> 1]

NoDash == [FreshDash EXCEPT !.state = "none"]

\* children spawned per mode in one run
MaxStarts == 2

\* the modes whose runtime is a child process
Modes == {"seed", "connect"}

\* one mode of ProcessManager: whether processes holds a child, state.running
\* and state.pid (0 is null); the child, whether it ends on SIGTERM, its
\* killed property and the signals sent to it; the call of stop and its timer
IdleProc ==
  [inMap |-> FALSE, running |-> FALSE, pid |-> 0, child |-> "none",
   obeys |-> TRUE, killed |-> FALSE, signals |-> <<>>, stop |-> "idle",
   timeout |-> "none", starts |-> 0]

FreshProcs == [state |-> "on", of |-> [m \in Modes |-> IdleProc]]

NoProcs == [FreshProcs EXCEPT !.state = "none"]

\* ------------------------------------------------- the model proxy's answers
PlainText == <<TextBlock>>
PlainTool == <<ToolUseBlock("t1")>>
RichResponses ==
  { <<TextBlock, ToolUseBlock("t1"), ToolUseBlock("t2")>>,
    <<ThinkingBlock, TextBlock>> }

IdleInv ==
  [pc |-> "idle", conv |-> 0, messages |-> <<>>, saved |-> <<>>, turn |-> 0,
   pending |-> <<>>, blocks |-> <<>>, toolIdx |-> 0, toolResults |-> <<>>,
   aborted |-> FALSE, result |-> "", requests |-> 0, inflight |-> 0,
   toolsStarted |-> 0, running |-> 0, abortedAt |-> "", abortMark |-> 0,
   abortRequests |-> 0]

InitChat(sends, convs, toolTurns, variety) ==
  /\ store = [c \in ConvIds |-> NoRecord]
  /\ nextConvId = 1
  /\ chatAbortController = 0
  /\ inv = [i \in InvIds |-> IdleInv]
  /\ notif = [i \in InvIds |-> <<>>]
  /\ nextInv = 1
  /\ chatActiveConversation = 0
  /\ chatSending = FALSE
  /\ inputDisabled = TRUE
  /\ systemLog = {}
  /\ budget = [sends |-> sends, convs |-> convs, toolTurns |-> toolTurns,
               variety |-> variety]

InitWith(sends, convs, toolTurns, variety) ==
  /\ InitChat(sends, convs, toolTurns, variety)
  /\ toolCall = NoCall
  /\ decoder = NoDecoder
  /\ storage = NoStorage
  /\ chunks = NoChunks
  /\ dash = NoDash
  /\ procs = NoProcs

Init == InitWith(MaxSends, MaxConvs, MaxToolTurns, MaxVariety)
InitLong == InitWith(LongSends, LongConvs, MAX_TURNS, LongVariety)

\* ------------------------------------------------------------- renderer
Note(kind, arg) == [kind |-> kind, arg |-> arg]

\* setChatSending(sending)
SetChatSending(sending) ==
  /\ chatSending' = sending
  /\ inputDisabled' = sending

\* onChatAiStreamDone: for the active conversation, setChatSending(false) and
\* openConversation, whose get finds the record just saved
OnChatAiStreamDone(c) ==
  IF c = chatActiveConversation
  THEN SetChatSending(FALSE)
  ELSE UNCHANGED <<chatSending, inputDisabled>>

\* onChatAiStreamError, then the "Chat error" line of sendChatMessage when the
\* invoke returns {ok: false, error: result}
OnChatAiStreamError(c, error, result) ==
  /\ IF c = chatActiveConversation
     THEN SetChatSending(FALSE)
     ELSE UNCHANGED <<chatSending, inputDisabled>>
  /\ systemLog' = systemLog
       \cup (IF c = chatActiveConversation /\ error # "Request aborted"
             THEN {"AI Chat error: " \o error} ELSE {})
       \cup {"Chat error: " \o result}


\* ------------------------------------------------------- conversation store
\* ChatStorage.save: the record of the id is overwritten as a whole
Save(c, ms) == [store EXCEPT ![c] = Stored(ms)]

\* ChatStorage.delete
Delete(c) == [store EXCEPT ![c] = NoRecord]

\* --------------------------------------------------------------- failures
AbortError == [name |-> "AbortError", message |-> "This operation was aborted"]
NetworkError == [name |-> "TypeError", message |-> "fetch failed"]
StreamError == [name |-> "TypeError", message |-> "terminated"]
\* throw new Error(`Proxy returned ${response.status}: ...`)
ProxyError == [name |-> "Error", message |-> "Proxy returned 500"]

\* the catch of chat:ai-send-stream: the text of the stream-error notification
ErrorText(e) == IF e.name = "AbortError" THEN "Request aborted" ELSE e.message

\* the catch of chat:ai-send-stream: the error of the handler's result
ErrorResult(e) == IF e.name = "AbortError" THEN "Aborted" ELSE e.message

\* ------------------------------------------- chat:ai-send-stream, step ends
\* the handler reaches its next await
Continue(i, r, log, ctrl) ==
  /\ inv' = [inv EXCEPT ![i] = r]
  /\ notif' = [notif EXCEPT ![i] = log]
  /\ chatAbortController' = ctrl
  /\ UNCHANGED <<chatSending, inputDisabled, systemLog>>

\* an exception reaches the handler's catch, then its finally
Throw(i, r, log, e) ==
  /\ inv' = [inv EXCEPT ![i] = [r EXCEPT !.pc = "done", !.result = ErrorResult(e)]]
  /\ notif' = [notif EXCEPT ![i] = Append(log, Note("stream-error", ErrorText(e)))]
  /\ chatAbortController' = 0
  /\ OnChatAiStreamError(r.conv, ErrorText(e), ErrorResult(e))

\* streamingChatLoop returned: return {ok: true}, then the finally
Return(i, r, log) ==
  /\ inv' = [inv EXCEPT ![i] = [r EXCEPT !.pc = "done", !.result = "ok"]]
  /\ notif' = [notif EXCEPT ![i] = log]
  /\ chatAbortController' = 0
  /\ OnChatAiStreamDone(r.conv)
  /\ UNCHANGED systemLog

\* faulty variant, not the code: the loop runs one turn too many
LoopConditionOffByOne(turn) == turn <= MAX_TURNS

\* for (let turn = 0; turn < MAX_TURNS; turn++)
LoopCondition(turn) == turn < MAX_TURNS

\* faulty variant, not the code: past the last turn the loop returns without
\* the stream-done notification
StreamingChatLoopTurnNoDone(i, r, log, ctrl) ==
  IF LoopCondition(r.turn)
  THEN LET started == Append(log, Note("stream-start", "")) IN
       IF r.aborted
       THEN Throw(i, r, started, AbortError)
       ELSE Continue(i, [r EXCEPT !.pc = "fetch", !.requests = @ + 1,
                                  !.inflight = @ + 1], started, ctrl)
  ELSE Return(i, r, log)

\* The top of the loop of streamingChatLoop: the stream-start notification and
\* the fetch of streamSingleTurn, which rejects at once, and sends nothing, when
\* the signal is already aborted; past the last turn, stream-done.
StreamingChatLoopTurn(i, r, log, ctrl) ==
  IF LoopCondition(r.turn)
  THEN LET started == Append(log, Note("stream-start", "")) IN
       IF r.aborted
       THEN Throw(i, r, started, AbortError)
       ELSE Continue(i, [r EXCEPT !.pc = "fetch", !.requests = @ + 1,
                                  !.inflight = @ + 1], started, ctrl)
  ELSE Return(i, r, Append(log, Note("stream-done", "")))

\* ------------------------------------------------------ renderer's actions
\* createNewConversation: chat:ai-create-conversation saves an empty
\* conversation, then openConversation of it
CreateNewConversation ==
  /\ budget.convs > 0
  /\ store' = Save(nextConvId, <<>>)
  /\ nextConvId' = nextConvId + 1
  /\ chatActiveConversation' = nextConvId
  /\ inputDisabled' = FALSE
  /\ budget' = [budget EXCEPT !.convs = @ - 1]
  /\ UNCHANGED <<calls, chatAbortController, inv, notif, nextInv, chatSending,
                 systemLog>>

\* openConversation(convId), from a click in the conversation list
OpenConversation(c) ==
  /\ c < nextConvId
  /\ chatActiveConversation' = c
  /\ inputDisabled' = IF store[c].present THEN FALSE ELSE inputDisabled
  /\ UNCHANGED <<calls, store, nextConvId, chatAbortController, inv, notif, nextInv,
                 chatSending, systemLog, budget>>

\* deleteConversation, with chat:ai-delete-conversation
DeleteConversation ==
  /\ chatActiveConversation # 0
  /\ store' = Delete(chatActiveConversation)
  /\ chatActiveConversation' = 0
  /\ inputDisabled' = TRUE
  /\ UNCHANGED <<calls, nextConvId, chatAbortController, inv, notif, nextInv,
                 chatSending, systemLog, budget>>

NotRunningText == "Buyer runtime is not running"

\* sendChatMessage (Enter in the enabled input, or the send button), and the
\* start of the chat:ai-send-stream handler up to its await of chatStorage.get
SendChatMessage ==
  /\ ~inputDisabled
  /\ chatActiveConversation # 0
  /\ budget.sends > 0
  /\ SetChatSending(TRUE)
  /\ nextInv' = nextInv + 1
  /\ budget' = [budget EXCEPT !.sends = @ - 1]
  /\ \E proxyRunning \in BOOLEAN :
       IF proxyRunning
       THEN /\ inv' = [inv EXCEPT ![nextInv] =
                         [@ EXCEPT !.pc = "get", !.conv = chatActiveConversation]]
            /\ UNCHANGED systemLog
       ELSE /\ inv' = [inv EXCEPT ![nextInv] =
                         [@ EXCEPT !.pc = "done", !.conv = chatActiveConversation,
                                   !.result = NotRunningText]]
            /\ systemLog' = systemLog \cup {"Chat error: " \o NotRunningText}
  /\ UNCHANGED <<calls, store, nextConvId, chatAbortController, notif,
                 chatActiveConversation>>

\* chat:ai-abort: controller.abort() sets the signal of the invocation that
\* created the controller (abortedAt, abortMark and abortRequests record where
\* it was, and what it had sent and requested by then)
AbortHandler ==
  IF chatAbortController # 0
  THEN /\ inv' = [inv EXCEPT ![chatAbortController] =
                     [@ EXCEPT !.aborted = TRUE,
                               !.abortedAt = inv[chatAbortController].pc,
                               !.abortMark = Len(notif[chatAbortController]),
                               !.abortRequests = inv[chatAbortController].requests]]
       /\ chatAbortController' = 0
  ELSE UNCHANGED <<inv, chatAbortController>>

\* click on the abort button, which shows while chatSending
AbortClick ==
  /\ chatSending
  /\ AbortHandler
  /\ SetChatSending(FALSE)
  /\ UNCHANGED <<calls, store, nextConvId, notif, nextInv, chatActiveConversation,
                 systemLog, budget>>


\* --------------------------------------------- chat:ai-send-stream, by await
\* faulty variant, not the code: a conversation that is not found is reported
\* with a stream-error notification
GetDoneNotifies(i) ==
  /\ inv[i].pc = "get"
  /\ LET r == inv[i]
         rec == store[r.conv]
     IN IF ~rec.present
        THEN /\ inv' = [inv EXCEPT ![i] =
                          [r EXCEPT !.pc = "done", !.result = "Conversation not found"]]
             /\ notif' = [notif EXCEPT ![i] =
                            Append(@, Note("stream-error", "Conversation not found"))]
             /\ systemLog' = systemLog \cup {"Chat error: Conversation not found"}
        ELSE /\ inv' = [inv EXCEPT ![i] =
                          [r EXCEPT !.pc = "saveUser",
                                    !.messages = Append(rec.messages,
                                       AiChatMessage("user", StringContent(UserText(i))))]]
             /\ UNCHANGED <<systemLog, notif>>
  /\ UNCHANGED <<calls, store, nextConvId, chatAbortController, nextInv,
                 chatActiveConversation, chatSending, inputDisabled, budget>>

\* after await chatStorage.get: not found, or the user message is pushed and
\* chatStorage.save begins
GetDone(i) ==
  /\ inv[i].pc = "get"
  /\ LET r == inv[i]
         rec == store[r.conv]
     IN IF ~rec.present
        THEN /\ inv' = [inv EXCEPT ![i] =
                          [r EXCEPT !.pc = "done", !.result = "Conversation not found"]]
             /\ systemLog' = systemLog \cup {"Chat error: Conversation not found"}
        ELSE /\ inv' = [inv EXCEPT ![i] =
                          [r EXCEPT !.pc = "saveUser",
                                    !.messages = Append(rec.messages,
                                       AiChatMessage("user", StringContent(UserText(i))))]]
             /\ UNCHANGED systemLog
  /\ UNCHANGED <<calls, store, nextConvId, chatAbortController, notif, nextInv,
                 chatActiveConversation, chatSending, inputDisabled, budget>>

\* writeFile of the save of the user message rejects
SaveFailed == [name |-> "Error", message |-> "EACCES: permission denied"]

\* the save of the user message rejects: it stands before the try, so the
\* invoke rejects with no notification and no AbortController was made; the
\* catch of sendChatMessage logs it and calls setChatSending(false)
SaveUserFailed(i) ==
  /\ inv[i].pc = "saveUser"
  /\ budget.variety > 0
  /\ budget' = [budget EXCEPT !.variety = @ - 1]
  /\ inv' = [inv EXCEPT ![i] = [@ EXCEPT !.pc = "done", !.result = "rejected"]]
  /\ systemLog' = systemLog \cup {"Chat send failed: " \o SaveFailed.message}
  /\ SetChatSending(FALSE)
  /\ UNCHANGED <<calls, store, nextConvId, chatAbortController, notif, nextInv,
                 chatActiveConversation>>

\* after the save of the user message: user-persisted, a new AbortController
\* replaces whatever chatAbortController held, and the loop begins
SaveUserDone(i) ==
  /\ inv[i].pc = "saveUser"
  /\ LET r == [inv[i] EXCEPT !.saved = inv[i].messages, !.turn = 0] IN
       /\ store' = Save(r.conv, r.messages)
       /\ StreamingChatLoopTurn(i, r, Append(notif[i], Note("user-persisted", "")), i)
  /\ UNCHANGED <<calls, nextConvId, nextInv, chatActiveConversation, budget>>

\* the block lists the proxy may answer with, and what each costs
Answers ==
  {[blocks |-> PlainText, tools |-> 0, variety |-> 0],
   [blocks |-> PlainTool, tools |-> 1, variety |-> 0]}
  \cup {[blocks |-> b, tools |-> (IF ToolUseBlocksOf(b) = <<>> THEN 0 ELSE 1),
         variety |-> 1] : b \in RichResponses}

Affordable(a, extra) ==
  /\ a.tools <= budget.toolTurns
  /\ a.variety + extra <= budget.variety

Spend(a, extra) ==
  [budget EXCEPT !.toolTurns = @ - a.tools, !.variety = @ - (a.variety + extra)]

\* after await fetch(url, {signal}): rejected by the abort or by the network,
\* or a response whose status and content type pick the path
FetchDone(i) ==
  /\ inv[i].pc = "fetch"
  /\ LET r == inv[i] IN
       IF r.aborted
       THEN /\ Throw(i, [r EXCEPT !.inflight = @ - 1], notif[i], AbortError)
            /\ UNCHANGED budget
       ELSE \/ /\ Throw(i, [r EXCEPT !.inflight = @ - 1], notif[i], NetworkError)
               /\ UNCHANGED budget
            \/ /\ Continue(i, [r EXCEPT !.pc = "errBody"], notif[i], chatAbortController)
               /\ UNCHANGED budget
            \/ \E a \in Answers :
                 /\ Affordable(a, 0)
                 /\ Continue(i, [r EXCEPT !.pc = "read", !.pending = a.blocks,
                                          !.blocks = <<>>],
                             notif[i], chatAbortController)
                 /\ budget' = Spend(a, 0)
            \/ \E a \in Answers :
                 /\ Affordable(a, 1)
                 /\ Continue(i, [r EXCEPT !.pc = "json", !.pending = a.blocks,
                                          !.blocks = <<>>],
                             notif[i], chatAbortController)
                 /\ budget' = Spend(a, 1)
  /\ UNCHANGED <<calls, store, nextConvId, nextInv, chatActiveConversation>>

\* if (!response.ok): after await response.text().catch(() => ''), which also
\* swallows the rejection an abort causes, the error of the status is thrown
ErrBodyDone(i) ==
  /\ inv[i].pc = "errBody"
  /\ Throw(i, [inv[i] EXCEPT !.inflight = @ - 1], notif[i], ProxyError)
  /\ UNCHANGED <<calls, store, nextConvId, nextInv, chatActiveConversation, budget>>

\* the notifications of one SSE block: content_block_start, the deltas of a
\* text or thinking block, content_block_stop
BlockNotes(b) ==
  IF b.type = "tool_use"
  THEN <<Note("block-start", b.id), Note("block-stop", b.id)>>
  ELSE <<Note("block-start", b.type), Note("block-delta", b.type),
         Note("block-stop", b.type)>>

RECURSIVE JsonBlocks(_)
\* the non-streaming path keeps the text and tool_use blocks of result.content
JsonBlocks(content) ==
  IF content = <<>> THEN <<>>
  ELSE IF Head(content).type \in {"text", "tool_use"}
       THEN <<Head(content)>> \o JsonBlocks(Tail(content))
       ELSE JsonBlocks(Tail(content))

RECURSIVE JsonNotes(_)
\* the non-streaming path sends one delta for each text block
JsonNotes(content) ==
  IF content = <<>> THEN <<>>
  ELSE (IF Head(content).type = "text" THEN <<Note("block-delta", "text")>> ELSE <<>>)
       \o JsonNotes(Tail(content))

\* streamSingleTurn returned blocks: the assistant message is pushed and its
\* save begins, on the text-only branch or on the tool branch
TurnReturned(i, r, log, blocks) ==
  LET pushed == Append(r.messages, AiChatMessage("assistant", BlockContent(blocks)))
  IN Continue(i, [r EXCEPT !.pc = IF ToolUseBlocksOf(blocks) = <<>>
                                  THEN "saveFinal" ELSE "saveAsst",
                           !.blocks = blocks, !.pending = <<>>,
                           !.messages = pushed, !.inflight = @ - 1],
              log, chatAbortController)

\* after await response.json() of the non-streaming path
JsonDone(i) ==
  /\ inv[i].pc = "json"
  /\ LET r == inv[i] IN
       IF r.aborted
       THEN Throw(i, [r EXCEPT !.inflight = @ - 1], notif[i], AbortError)
       ELSE TurnReturned(i, r, notif[i] \o JsonNotes(r.pending), JsonBlocks(r.pending))
  /\ UNCHANGED <<calls, store, nextConvId, nextInv, chatActiveConversation, budget>>

\* faulty variant, not the code: the signal does not reach the reader, the stream is read to its end
ReadChunkIgnoringAbort(i) ==
  /\ inv[i].pc = "read"
  /\ LET r == inv[i] IN
       \/ /\ r.pending # <<>>
          /\ Continue(i, [r EXCEPT !.pending = Tail(@),
                                   !.blocks = Append(@, Head(r.pending))],
                      notif[i] \o BlockNotes(Head(r.pending)), chatAbortController)
       \/ /\ r.pending = <<>>
          /\ TurnReturned(i, r, notif[i], r.blocks)
  /\ UNCHANGED <<calls, store, nextConvId, nextInv, chatActiveConversation, budget>>

\* after await reader.read(): rejected by the abort or by the transport, a
\* chunk that carries the events of the next block, or done
ReadChunk(i) ==
  /\ inv[i].pc = "read"
  /\ LET r == inv[i] IN
       IF r.aborted
       THEN Throw(i, [r EXCEPT !.inflight = @ - 1], notif[i], AbortError)
       ELSE \/ Throw(i, [r EXCEPT !.inflight = @ - 1], notif[i], StreamError)
            \/ /\ r.pending # <<>>
               /\ Continue(i, [r EXCEPT !.pending = Tail(@),
                                        !.blocks = Append(@, Head(r.pending))],
                           notif[i] \o BlockNotes(Head(r.pending)), chatAbortController)
            \/ /\ r.pending = <<>>
               /\ TurnReturned(i, r, notif[i], r.blocks)
  /\ UNCHANGED <<calls, store, nextConvId, nextInv, chatActiveConversation, budget>>


\* faulty variant, not the code: the text-only branch does not return, the loop goes on
SaveFinalDoneNoReturn(i) ==
  /\ inv[i].pc = "saveFinal"
  /\ LET r == [inv[i] EXCEPT !.saved = inv[i].messages, !.turn = @ + 1] IN
       /\ store' = Save(r.conv, r.messages)
       /\ StreamingChatLoopTurn(i, r, Append(notif[i], Note("stream-done", "")),
                                chatAbortController)
  /\ UNCHANGED <<calls, nextConvId, nextInv, chatActiveConversation, budget>>

\* after the save of a text-only assistant message: stream-done, return
SaveFinalDone(i) ==
  /\ inv[i].pc = "saveFinal"
  /\ LET r == [inv[i] EXCEPT !.saved = inv[i].messages] IN
       /\ store' = Save(r.conv, r.messages)
       /\ Return(i, r, Append(notif[i], Note("stream-done", "")))
  /\ UNCHANGED <<calls, nextConvId, nextInv, chatActiveConversation, budget>>

\* for (const toolBlock of toolUseBlocks), up to await executeTool of the
\* k-th tool_use block: the tool-executing notification and the call
ExecuteTool(r, log, k) ==
  [r |-> [r EXCEPT !.pc = "tool", !.toolIdx = k, !.running = @ + 1,
                   !.toolsStarted = @ + 1],
   log |-> Append(log, Note("tool-executing", ToolUseBlocksOf(r.blocks)[k].id))]

\* after the save of an assistant message with tool_use blocks: the first tool
SaveAsstDone(i) ==
  /\ inv[i].pc = "saveAsst"
  /\ LET r == [inv[i] EXCEPT !.saved = inv[i].messages, !.toolResults = <<>>]
         next == ExecuteTool(r, notif[i], 1)
     IN /\ store' = Save(r.conv, r.messages)
        /\ Continue(i, next.r, next.log, chatAbortController)
  /\ UNCHANGED <<calls, nextConvId, nextInv, chatActiveConversation, budget>>

\* faulty variant, not the code: the results are collected in reverse
PushToolResultFront(results, id, isError) ==
  <<ToolResultBlock(id, isError)>> \o results

\* toolResults.push({type: 'tool_result', tool_use_id: toolBlock.id, ...})
PushToolResult(results, id, isError) == Append(results, ToolResultBlock(id, isError))

\* faulty variant, not the code: a tool that reports an error ends the loop
ToolDoneErrorEndsLoop(i) ==
  /\ inv[i].pc = "tool"
  /\ \E isError \in BOOLEAN :
       LET r == inv[i]
           tools == ToolUseBlocksOf(r.blocks)
           id == tools[r.toolIdx].id
           cost == IF isError THEN 1 ELSE 0
           collected == [r EXCEPT !.toolResults = PushToolResult(@, id, isError),
                                  !.running = @ - 1]
           log == Append(notif[i], Note("tool-result", id))
           next == ExecuteTool(collected, log, r.toolIdx + 1)
       IN /\ cost <= budget.variety
          /\ budget' = [budget EXCEPT !.variety = @ - cost]
          /\ IF isError
             THEN Throw(i, [r EXCEPT !.running = @ - 1], notif[i],
                        [name |-> "Error", message |-> "Command failed"])
             ELSE IF r.toolIdx < Len(tools)
             THEN Continue(i, next.r, next.log, chatAbortController)
             ELSE Continue(i, [collected EXCEPT
                                 !.pc = "saveTools",
                                 !.messages = Append(@, AiChatMessage("user",
                                                BlockContent(collected.toolResults)))],
                           log, chatAbortController)
  /\ UNCHANGED <<calls, store, nextConvId, nextInv, chatActiveConversation>>

\* faulty variant, not the code: every tool_result is appended as a message of
\* its own
ToolDonePushesEach(i) ==
  /\ inv[i].pc = "tool"
  /\ \E isError \in BOOLEAN :
       LET r == inv[i]
           tools == ToolUseBlocksOf(r.blocks)
           id == tools[r.toolIdx].id
           cost == IF isError THEN 1 ELSE 0
           collected == [r EXCEPT !.toolResults = PushToolResult(@, id, isError),
                                  !.running = @ - 1,
                                  !.messages = Append(@, AiChatMessage("user",
                                     BlockContent(<<ToolResultBlock(id, isError)>>)))]
           log == Append(notif[i], Note("tool-result", id))
           next == ExecuteTool(collected, log, r.toolIdx + 1)
       IN /\ cost <= budget.variety
          /\ budget' = [budget EXCEPT !.variety = @ - cost]
          /\ IF r.toolIdx < Len(tools)
             THEN Continue(i, next.r, next.log, chatAbortController)
             ELSE Continue(i, [collected EXCEPT !.pc = "saveTools"], log,
                           chatAbortController)
  /\ UNCHANGED <<calls, store, nextConvId, nextInv, chatActiveConversation>>

\* faulty variant, not the code: a tool that ends after the abort is dropped
\* and the loop ends at once
ToolDoneInterrupted(i) ==
  /\ inv[i].pc = "tool"
  /\ \E isError \in BOOLEAN :
       LET r == inv[i]
           tools == ToolUseBlocksOf(r.blocks)
           id == tools[r.toolIdx].id
           cost == IF isError THEN 1 ELSE 0
           collected == [r EXCEPT !.toolResults = PushToolResult(@, id, isError),
                                  !.running = @ - 1]
           log == Append(notif[i], Note("tool-result", id))
           next == ExecuteTool(collected, log, r.toolIdx + 1)
       IN /\ cost <= budget.variety
          /\ budget' = [budget EXCEPT !.variety = @ - cost]
          /\ IF r.aborted
             THEN Throw(i, [r EXCEPT !.running = @ - 1], notif[i], AbortError)
             ELSE IF r.toolIdx < Len(tools)
             THEN Continue(i, next.r, next.log, chatAbortController)
             ELSE Continue(i, [collected EXCEPT
                                 !.pc = "saveTools",
                                 !.messages = Append(@, AiChatMessage("user",
                                                BlockContent(collected.toolResults)))],
                           log, chatAbortController)
  /\ UNCHANGED <<calls, store, nextConvId, nextInv, chatActiveConversation>>

\* after await executeTool, which never rejects: the tool_result is collected
\* and notified; then the next tool, or past the last one the tool_result
\* message is pushed and its save begins
ToolDone(i) ==
  /\ inv[i].pc = "tool"
  /\ \E isError \in BOOLEAN :
       LET r == inv[i]
           tools == ToolUseBlocksOf(r.blocks)
           id == tools[r.toolIdx].id
           cost == IF isError THEN 1 ELSE 0
           collected == [r EXCEPT !.toolResults = PushToolResult(@, id, isError),
                                  !.running = @ - 1]
           log == Append(notif[i], Note("tool-result", id))
           next == ExecuteTool(collected, log, r.toolIdx + 1)
       IN /\ cost <= budget.variety
          /\ budget' = [budget EXCEPT !.variety = @ - cost]
          /\ IF r.toolIdx < Len(tools)
             THEN Continue(i, next.r, next.log, chatAbortController)
             ELSE Continue(i, [collected EXCEPT
                                 !.pc = "saveTools",
                                 !.messages = Append(@, AiChatMessage("user",
                                                BlockContent(collected.toolResults)))],
                           log, chatAbortController)
  /\ UNCHANGED <<calls, store, nextConvId, nextInv, chatActiveConversation>>

\* faulty variant, not the code: the save of the tool_result message is not awaited
SaveToolsDoneNotAwaited(i) ==
  /\ inv[i].pc = "saveTools"
  /\ LET r == [inv[i] EXCEPT !.turn = @ + 1, !.blocks = <<>>,
                             !.toolResults = <<>>, !.toolIdx = 0]
     IN StreamingChatLoopTurn(i, r, notif[i], chatAbortController)
  /\ UNCHANGED <<calls, store, nextConvId, nextInv, chatActiveConversation, budget>>

\* after the save of the tool_result message: turn++ and the top of the loop
SaveToolsDone(i) ==
  /\ inv[i].pc = "saveTools"
  /\ LET r == [inv[i] EXCEPT !.saved = inv[i].messages, !.turn = @ + 1,
                             !.blocks = <<>>, !.toolResults = <<>>, !.toolIdx = 0]
     IN /\ store' = Save(r.conv, r.messages)
        /\ StreamingChatLoopTurn(i, r, notif[i], chatAbortController)
  /\ UNCHANGED <<calls, nextConvId, nextInv, chatActiveConversation, budget>>

\* ------------------------------------------- streamSingleTurn, the SSE path
\* lines read in one run of the decoder
MaxLines == 4
\* blocks of the document of a non-streaming response
MaxDocBlocks == 2

\* the chat:ai-stream-block-start, -delta and -block-stop notifications
StreamNote(kind, index, blockType, text) ==
  [kind |-> kind, index |-> index, blockType |-> blockType, text |-> text]

\* the texts the proxy sends in input_json_delta events
JsonFragments == {"{\"k\":1", "}", "null"}

\* JSON.parse of a text made of these fragments: a value, or a SyntaxError
JsonParse(text) ==
  CASE text = "{\"k\":1}" -> [ok |-> TRUE, value |-> JsonMap({"k"})]
    [] text = "{}" -> [ok |-> TRUE, value |-> EmptyMap]
    [] text = "null" -> [ok |-> TRUE, value |-> JsonNull]
    [] OTHER -> [ok |-> FALSE, value |-> JsonNull]

\* faulty variant, not the code: a text that does not parse leaves no map
ParseToolInputNoDefault(toolJsonAccum) ==
  LET parsed == JsonParse(IF toolJsonAccum = "" THEN "{}" ELSE toolJsonAccum)
  IN parsed.value

\* let parsedInput = {}; try { parsedInput = JSON.parse(toolJsonAccum || '{}') }
\* catch {}
ParseToolInput(toolJsonAccum) ==
  LET parsed == JsonParse(IF toolJsonAccum = "" THEN "{}" ELSE toolJsonAccum)
  IN IF parsed.ok THEN parsed.value ELSE EmptyMap

\* case 'content_block_start'
ContentBlockStart(d, e) ==
  LET started == [d EXCEPT !.currentBlockIndex = e.index,
                           !.currentBlockType = e.kind]
      note == StreamNote("block-start", e.index, e.kind, "")
  IN CASE e.kind = "text" ->
            [started EXCEPT !.textAccum = e.text, !.notes = Append(@, note)]
       [] e.kind = "tool_use" ->
            [started EXCEPT !.currentToolId = e.id, !.currentToolName = e.name,
                            !.toolJsonAccum = "", !.notes = Append(@, note)]
       [] e.kind = "thinking" ->
            [started EXCEPT !.textAccum = "", !.notes = Append(@, note)]
       [] OTHER -> started

\* faulty variant, not the code: a delta replaces what was accumulated
ContentBlockDeltaOverwrites(d, e) ==
  CASE e.kind = "text_delta" ->
         [d EXCEPT !.textAccum = e.text,
                   !.notes = Append(@, StreamNote("block-delta", d.currentBlockIndex,
                                                  "text", e.text))]
    [] e.kind = "input_json_delta" -> [d EXCEPT !.toolJsonAccum = e.text]
    [] e.kind = "thinking_delta" ->
         [d EXCEPT !.textAccum = e.text,
                   !.notes = Append(@, StreamNote("block-delta", d.currentBlockIndex,
                                                  "thinking", e.text))]
    [] OTHER -> d

\* case 'content_block_delta'
ContentBlockDelta(d, e) ==
  CASE e.kind = "text_delta" ->
         [d EXCEPT !.textAccum = @ \o e.text,
                   !.notes = Append(@, StreamNote("block-delta", d.currentBlockIndex,
                                                  "text", e.text))]
    [] e.kind = "input_json_delta" -> [d EXCEPT !.toolJsonAccum = @ \o e.text]
    [] e.kind = "thinking_delta" ->
         [d EXCEPT !.textAccum = @ \o e.text,
                   !.notes = Append(@, StreamNote("block-delta", d.currentBlockIndex,
                                                  "thinking", e.text))]
    [] OTHER -> d

\* case 'content_block_stop'
ContentBlockStop(d) ==
  LET note == StreamNote("block-stop", d.currentBlockIndex, d.currentBlockType, "")
      pushed ==
        CASE d.currentBlockType = "text" ->
               [d EXCEPT !.blocks = Append(@, TextOf(d.textAccum)),
                         !.notes = Append(@, note)]
          [] d.currentBlockType = "tool_use" ->
               [d EXCEPT !.blocks = Append(@, ToolUseOf(d.currentToolId,
                                      d.currentToolName,
                                      ParseToolInput(d.toolJsonAccum))),
                         !.notes = Append(@, note)]
          [] d.currentBlockType = "thinking" ->
               [d EXCEPT !.blocks = Append(@, ThinkingOf(d.textAccum)),
                         !.notes = Append(@, note)]
          [] OTHER -> d
  IN [pushed EXCEPT !.textAccum = "", !.toolJsonAccum = ""]

\* switch (eventType)
ProcessEvent(d, e) ==
  CASE e.type = "content_block_start" -> ContentBlockStart(d, e)
    [] e.type = "content_block_delta" -> ContentBlockDelta(d, e)
    [] e.type = "content_block_stop" -> ContentBlockStop(d)
    [] OTHER -> d

\* faulty variant, not the code: the SyntaxError of JSON.parse is not caught
ProcessLineNoCatch(d, line) ==
  IF ~line.prefix THEN d
  ELSE IF line.kind \in {"done", "blank"} THEN d
  ELSE IF line.kind = "text" THEN [d EXCEPT !.state = "threw"]
  ELSE IF line.kind = "null"
       THEN [d EXCEPT !.state = "threw", !.fed = Append(@, NoEvent)]
  ELSE ProcessEvent([d EXCEPT !.fed = Append(@, line.event)], line.event)

\* the body of for (const line of lines): lines without the prefix, blank data,
\* '[DONE]' and texts JSON.parse rejects are skipped; String(event.type ?? '')
\* throws a TypeError, which nothing catches, when the payload is the JSON null
ProcessLine(d, line) ==
  IF ~line.prefix THEN d
  ELSE IF line.kind \in {"done", "blank"} THEN d
  ELSE IF line.kind = "text" THEN d
  ELSE IF line.kind = "null"
       THEN [d EXCEPT !.state = "threw", !.fed = Append(@, NoEvent)]
  ELSE ProcessEvent([d EXCEPT !.fed = Append(@, line.event)], line.event)

\* the events the proxy may send as the one that starts block number index
StartEvents(index) ==
  {SseEvent("content_block_start", index, "text", t, "", "") : t \in {"", "i"}}
    \cup {SseEvent("content_block_start", index, "tool_use", "", "t1", "bash"),
          SseEvent("content_block_start", index, "thinking", "", "", ""),
          SseEvent("content_block_start", index, "redacted_thinking", "", "", "")}

DeltaEvent(kind, text) == SseEvent("content_block_delta", 0, kind, text, "", "")

DeltaEvents ==
  {DeltaEvent("text_delta", t) : t \in {"a", "b"}}
    \cup {DeltaEvent("input_json_delta", f) : f \in JsonFragments}
    \cup {DeltaEvent("thinking_delta", "r")}

StopEvent == SseEvent("content_block_stop", 0, "", "", "", "")

OtherEvents ==
  {StopEvent, SseEvent("message_stop", 0, "", "", "", ""),
   SseEvent("ping", 0, "", "", "", "")}

\* the lines the proxy may send next: the index of a content_block_start is the
\* number of blocks started before it
SseLines(d) ==
  LET starts == Cardinality({k \in 1..Len(d.fed) :
                               d.fed[k].type = "content_block_start"})
  IN {SseLine(TRUE, "event", e) :
        e \in StartEvents(starts) \cup DeltaEvents \cup OtherEvents}
       \cup {SseLine(FALSE, "blank", NoEvent), SseLine(FALSE, "event", StopEvent),
             SseLine(TRUE, "blank", NoEvent), SseLine(TRUE, "done", NoEvent),
             SseLine(TRUE, "text", NoEvent), SseLine(TRUE, "null", NoEvent)}

RECURSIVE JsonDeltas(_)
\* the non-streaming path sends one chat:ai-stream-delta, with index 0, for
\* each text block
JsonDeltas(content) ==
  IF content = <<>> THEN <<>>
  ELSE (IF Head(content).type = "text"
        THEN <<StreamNote("block-delta", 0, "text", Head(content).text)>>
        ELSE <<>>) \o JsonDeltas(Tail(content))

\* the blocks a document of a non-streaming response may hold
DocBlocks == {TextOf("a"), ThinkingOf("r"), ToolUseOf("t1", "bash", EmptyMap)}

Docs == UNION {[1..n -> DocBlocks] : n \in 0..MaxDocBlocks}

\* a response that is no event stream: the blocks of its document
JsonResponse ==
  /\ decoder.state = "reading" /\ decoder.path = ""
  /\ \E content \in Docs :
       decoder' = [decoder EXCEPT !.state = "returned", !.path = "json",
                                  !.blocks = JsonBlocks(content),
                                  !.notes = JsonDeltas(content)]
  /\ UNCHANGED <<chat, toolCall, storage, chunks, dash, procs>>

\* reader.read() gives a chunk that is one whole line
ReadLine ==
  /\ decoder.state = "reading" /\ decoder.path \in {"", "sse"}
  /\ decoder.lines < MaxLines
  /\ \E line \in SseLines(decoder) :
       decoder' = ProcessLine([decoder EXCEPT !.path = "sse", !.lines = @ + 1,
                                              !.last = line], line)
  /\ UNCHANGED <<chat, toolCall, storage, chunks, dash, procs>>

\* reader.read() gives done: return blocks
ReadDone ==
  /\ decoder.state = "reading" /\ decoder.path \in {"", "sse"}
  /\ decoder' = [decoder EXCEPT !.state = "returned", !.path = "sse"]
  /\ UNCHANGED <<chat, toolCall, storage, chunks, dash, procs>>

\* ------------------------------------------------------ one call of executeTool
ExecuteToolCall ==
  /\ toolCall.state = "called"
  /\ toolCall' = [toolCall EXCEPT
                    !.state = "settled",
                    !.result = executeTool(toolCall.name, toolCall.input,
                                           toolCall.sys)]
  /\ UNCHANGED <<chat, decoder, storage, chunks, dash, procs>>

\* ------------------------------------------------ the body, read in chunks
\* the bytes of a line: 'data: ' is the byte p; s1 s2 are the two halves of the
\* JSON text of a content_block_start of a text block, x is the JSON text of a
\* content_block_stop; e1 e2 are the two bytes of one character outside ASCII
LineTexts ==
  {<<"p", "s1", "s2">>, <<"p", "x">>, <<"p", "s1">>, <<"e1", "e2">>, <<"e1">>,
   <<"p">>, <<>>}

RECURSIVE StreamOf(_)
\* the lines, each followed by a newline
StreamOf(lines) ==
  IF lines = <<>> THEN <<>> ELSE Head(lines) \o <<"nl">> \o StreamOf(Tail(lines))

\* the bodies the proxy may send: some lines, the last one with or without
\* its newline
Streams ==
  LET whole == {StreamOf(ls) : ls \in UNION {[1..n -> LineTexts] :
                                               n \in 1..MaxStreamLines}}
  IN whole \cup {SubSeq(st, 1, Len(st) - 1) : st \in whole}

Decoded(chars, pending) == [chars |-> chars, pending |-> pending]

RECURSIVE Utf8Decode(_, _)
\* decoder.decode(value, {stream: true}): a first byte of a character at the
\* end of the chunk is held back; a first byte with no second one, and a
\* second byte with no first, give U+FFFD (written ?); E is the character e1 e2
Utf8Decode(pending, bytes) ==
  IF bytes = <<>> THEN Decoded(<<>>, pending)
  ELSE LET b == Head(bytes)
           After(char, rest) ==
             LET more == Utf8Decode("", rest)
             IN Decoded(<<char>> \o more.chars, more.pending)
       IN IF pending = "e1"
          THEN IF b = "e2" THEN After("E", Tail(bytes))
               ELSE LET more == Utf8Decode("", bytes)
                    IN Decoded(<<"?">> \o more.chars, more.pending)
          ELSE IF b = "e1" THEN Utf8Decode("e1", Tail(bytes))
          ELSE IF b = "e2" THEN After("?", Tail(bytes))
          ELSE After(b, Tail(bytes))

RECURSIVE SplitLines(_, _)
\* sseBuffer.split('\n'): the texts between the newlines, the last one being
\* what follows the last newline
SplitLines(chars, current) ==
  IF chars = <<>> THEN <<current>>
  ELSE IF Head(chars) = "nl"
       THEN <<current>> \o SplitLines(Tail(chars), <<>>)
  ELSE SplitLines(Tail(chars), Append(current, Head(chars)))

\* what a line is to the line loop: startsWith('data: '), and JSON.parse of
\* the rest
LineOf(chars) ==
  IF chars = <<>> \/ Head(chars) # "p" THEN SseLine(FALSE, "text", NoEvent)
  ELSE IF Tail(chars) = <<>> THEN SseLine(TRUE, "blank", NoEvent)
  ELSE IF Tail(chars) = <<"s1", "s2">>
       THEN SseLine(TRUE, "event",
                    SseEvent("content_block_start", 0, "text", "i", "", ""))
  ELSE IF Tail(chars) = <<"x">> THEN SseLine(TRUE, "event", StopEvent)
  ELSE SseLine(TRUE, "text", NoEvent)

RECURSIVE ProcessLines(_, _)
\* for (const line of lines)
ProcessLines(d, lines) ==
  IF lines = <<>> THEN d
  ELSE ProcessLines(ProcessLine(d, LineOf(Head(lines))), Tail(lines))

\* faulty variant, not the code: what follows the last newline is dropped
RemainderDropped(parts) == <<>>

\* sseBuffer = lines.pop() ?? ''
Remainder(parts) == parts[Len(parts)]

\* the body of while (true) for one chunk
FeedChunk(c, bytes) ==
  LET decoded == Utf8Decode(c.pending, bytes)
      parts == SplitLines(c.sseBuffer \o decoded.chars, <<>>)
  IN [c EXCEPT !.pending = decoded.pending,
               !.sseBuffer = Remainder(parts),
               !.d = ProcessLines(c.d, SubSeq(parts, 1, Len(parts) - 1))]

\* reader.read() gives the next bytes of the body, cut where the transport
\* cuts them
ReadBytes ==
  /\ chunks.state = "reading"
  /\ \E n \in 1..MaxChunk :
       /\ chunks.pos + n <= Len(chunks.stream)
       /\ chunks' =
            [FeedChunk(chunks, SubSeq(chunks.stream, chunks.pos + 1, chunks.pos + n))
               EXCEPT !.pos = chunks.pos + n, !.cuts = chunks.cuts \cup {chunks.pos + n}]
  /\ UNCHANGED <<chat, toolCall, decoder, storage, dash, procs>>

\* reader.read() gives done after the last byte: return blocks
ReadEnd ==
  /\ chunks.state = "reading"
  /\ chunks.pos = Len(chunks.stream)
  /\ chunks' = [chunks EXCEPT !.state = "returned"]
  /\ UNCHANGED <<chat, toolCall, decoder, storage, dash, procs>>

\* ------------------------------------------------------ dashboard runtime
\* stopDashboardRuntime up to its await: with no server, running is cleared
\* and it returns; else it awaits dashboardServer.stop(). resume is where the
\* caller goes on.
StopDashboardRuntime(d, k, resume) ==
  IF d.dashboardServer = 0
  THEN [d EXCEPT !.running = FALSE, !.calls[k].pc = resume]
  ELSE [d EXCEPT !.calls[k].pc = "stopping", !.calls[k].resume = resume,
                 !.calls[k].victim = d.dashboardServer]

\* startDashboardRuntime after its stop: port and lastError are set and
\* loadDashboardConfig is awaited
LoadConfig(d, k) == [d EXCEPT !.port = d.calls[k].port, !.calls[k].pc = "config"]

\* where a call goes on after stopDashboardRuntime
Resume(d, k) == IF d.calls[k].pc = "restart" THEN LoadConfig(d, k) ELSE d

\* startDashboardRuntime(port) up to its first await
StartDashboardRuntime(d, k, port) ==
  LET called == [d EXCEPT !.calls[k].port = port] IN
  IF d.running /\ d.port = port THEN [called EXCEPT !.calls[k].pc = "done"]
  ELSE IF d.running THEN Resume(StopDashboardRuntime(called, k, "restart"), k)
  ELSE LoadConfig(called, k)

\* runtime:start for the dashboard, and the start of app.whenReady
DashStart ==
  /\ dash.nextCall <= MaxDashCalls
  /\ \E port \in DashPorts :
       dash' = [StartDashboardRuntime([dash EXCEPT !.calls[dash.nextCall].kind = "start"],
                                      dash.nextCall, port)
                  EXCEPT !.nextCall = @ + 1]
  /\ UNCHANGED <<chat, toolCall, decoder, storage, chunks, procs>>

\* ensureDashboardRuntime(port), from the handlers that need the dashboard
DashEnsure ==
  /\ dash.nextCall <= MaxDashCalls
  /\ \E port \in DashPorts :
       LET k == dash.nextCall
           called == [dash EXCEPT !.calls[k].kind = "ensure", !.calls[k].port = port]
       IN dash' = [(IF dash.running THEN [called EXCEPT !.calls[k].pc = "done"]
                    ELSE StartDashboardRuntime(called, k, port))
                     EXCEPT !.nextCall = @ + 1]
  /\ UNCHANGED <<chat, toolCall, decoder, storage, chunks, procs>>

\* runtime:stop for the dashboard
DashStop ==
  /\ dash.nextCall <= MaxDashCalls
  /\ dash' = [StopDashboardRuntime([dash EXCEPT !.calls[dash.nextCall].kind = "stop"],
                                   dash.nextCall, "done")
                EXCEPT !.nextCall = @ + 1]
  /\ UNCHANGED <<chat, toolCall, decoder, storage, chunks, procs>>

\* after await dashboardServer.stop(), fulfilled or rejected: the finally
\* clears dashboardServer and running, and the caller goes on
StopAwaited(k) ==
  /\ dash.calls[k].pc = "stopping"
  /\ \E stopped \in BOOLEAN :
       LET victim == dash.calls[k].victim
           after == [dash EXCEPT
                       !.servers[victim].status = IF stopped THEN "stopped" ELSE @,
                       !.dashboardServer = 0, !.running = FALSE,
                       !.calls[k].pc = dash.calls[k].resume]
       IN dash' = Resume(after, k)
  /\ UNCHANGED <<chat, toolCall, decoder, storage, chunks, procs>>

\* after await loadDashboardConfig(): createDashboardServer is awaited
ConfigLoaded(k) ==
  /\ dash.calls[k].pc = "config"
  /\ dash' = [dash EXCEPT !.calls[k].pc = "create"]
  /\ UNCHANGED <<chat, toolCall, decoder, storage, chunks, procs>>

\* after await createDashboardServer: dashboardServer is assigned and its
\* start() is awaited
ServerCreated(k) ==
  /\ dash.calls[k].pc = "create"
  /\ dash' = [dash EXCEPT
                !.servers[k] = [status |-> "created", port |-> dash.calls[k].port],
                !.dashboardServer = k, !.calls[k].pc = "starting"]
  /\ UNCHANGED <<chat, toolCall, decoder, storage, chunks, procs>>

\* some other server is started on the port
PortTaken(d, k) ==
  \E j \in DashCalls \ {k} :
    d.servers[j].status = "started" /\ d.servers[j].port = d.servers[k].port

\* after await dashboardServer.start(): running is set; or start() rejected
\* (it does when the port is taken) and the catch clears running and
\* dashboardServer
ServerStarted(k) ==
  /\ dash.calls[k].pc = "starting"
  /\ \E ok \in BOOLEAN :
       /\ ok => ~PortTaken(dash, k)
       /\ dash' =
            IF ok
            THEN [dash EXCEPT !.servers[k].status = "started", !.running = TRUE,
                              !.calls[k].pc = "done"]
            ELSE [dash EXCEPT !.servers[k].status = "failed", !.running = FALSE,
                              !.dashboardServer = 0, !.calls[k].pc = "done"]
  /\ UNCHANGED <<chat, toolCall, decoder, storage, chunks, procs>>

\* ---------------------------------------------------------- ProcessManager
\* start(opts): spawn, processes.set, state.running = true, state.pid
StartProcess(m) ==
  /\ procs.state = "on"
  /\ ~procs.of[m].inMap
  /\ procs.of[m].stop # "waiting"
  /\ procs.of[m].starts < MaxStarts
  /\ \E obeys \in BOOLEAN :
       procs' = [procs EXCEPT
                   !.of[m] = [IdleProc EXCEPT !.inMap = TRUE, !.running = TRUE,
                                              !.pid = 1, !.child = "alive",
                                              !.obeys = obeys,
                                              !.starts = procs.of[m].starts + 1]]
  /\ UNCHANGED <<chat, toolCall, decoder, storage, chunks, dash>>

\* child.kill(signal) on a child that lives: the signal is sent and
\* child.killed becomes true
Kill(p, signal) == [p EXCEPT !.signals = Append(@, signal), !.killed = TRUE]

\* stop(mode): with no child it returns at once; else the timeout is set, the
\* exit listener added and SIGTERM sent
StopProcess(m) ==
  /\ procs.state = "on"
  /\ procs.of[m].stop # "waiting"
  /\ procs.of[m].starts > 0
  /\ procs' =
       IF ~procs.of[m].inMap
       THEN [procs EXCEPT !.of[m].running = FALSE, !.of[m].pid = 0,
                          !.of[m].stop = "resolved"]
       ELSE [procs EXCEPT !.of[m] = [Kill(procs.of[m], "SIGTERM") EXCEPT
                                       !.stop = "waiting", !.timeout = "set"]]
  /\ UNCHANGED <<chat, toolCall, decoder, storage, chunks, dash>>

\* if (!child.killed)
TimeoutSendsKill(p) == ~p.killed

\* the callback of setTimeout, 5 seconds after stop
TimeoutFires(m) ==
  /\ procs.state = "on"
  /\ procs.of[m].timeout = "set"
  /\ procs' = [procs EXCEPT
                 !.of[m] = [(IF TimeoutSendsKill(procs.of[m])
                             THEN Kill(procs.of[m], "SIGKILL") ELSE procs.of[m])
                              EXCEPT !.timeout = "fired"]]
  /\ UNCHANGED <<chat, toolCall, decoder, storage, chunks, dash>>

\* the child's exit event: the listener of start clears the mode, the listener
\* of stop clears the timeout and resolves the call
Exited(p) ==
  [p EXCEPT !.child = "exited", !.inMap = FALSE, !.running = FALSE, !.pid = 0,
            !.timeout = IF p.stop = "waiting" /\ @ = "set" THEN "cleared" ELSE @,
            !.stop = IF @ = "waiting" THEN "resolved" ELSE @]

HasSignal(p, signal) == \E k \in 1..Len(p.signals) : p.signals[k] = signal

\* the child ends because of a signal: SIGKILL always ends it, SIGTERM ends it
\* when it does not catch it
ExitOnSignal(m) ==
  /\ procs.state = "on"
  /\ procs.of[m].child = "alive"
  /\ \/ HasSignal(procs.of[m], "SIGKILL")
     \/ procs.of[m].obeys /\ HasSignal(procs.of[m], "SIGTERM")
  /\ procs' = [procs EXCEPT !.of[m] = Exited(procs.of[m])]
  /\ UNCHANGED <<chat, toolCall, decoder, storage, chunks, dash>>

\* the child ends by itself
ExitByItself(m) ==
  /\ procs.state = "on"
  /\ procs.of[m].child = "alive"
  /\ procs.of[m].signals = <<>>
  /\ procs' = [procs EXCEPT !.of[m] = Exited(procs.of[m])]
  /\ UNCHANGED <<chat, toolCall, decoder, storage, chunks, dash>>

\* ---------------------------------------------------------- specifications
\* a pending await of invocation i settles and its handler runs on
HandlerStep(i) ==
       \/ GetDone(i)
       \/ SaveUserDone(i)
       \/ SaveUserFailed(i)
       \/ FetchDone(i)
       \/ ErrBodyDone(i)
       \/ JsonDone(i)
       \/ ReadChunk(i)
       \/ SaveFinalDone(i)
       \/ SaveAsstDone(i)
       \/ ToolDone(i)
       \/ SaveToolsDone(i)

Next ==
  \/ CreateNewConversation
  \/ \E c \in ConvIds : OpenConversation(c)
  \/ DeleteConversation
  \/ SendChatMessage
  \/ AbortClick
  \/ \E i \in InvIds : HandlerStep(i)

\* two sends, few tool turns: the handlers of two invocations interleave
Spec == Init /\ [][Next]_vars

\* one send whose every turn may ask for tools: the loop reaches its ceiling
SpecLong == InitLong /\ [][Next]_vars

\* one send with one tool turn, in which every await of the main process
\* settles in the end; the user need not click anything
InitLive == InitWith(LongSends, LongConvs, MaxToolTurns, LongVariety)

SpecLive ==
  InitLive /\ [][Next]_vars /\ \A i \in InvIds : WF_vars(HandlerStep(i))

\* one response of the model proxy, decoded on its own
InitDecoder ==
  /\ InitChat(0, 0, 0, 0)
  /\ toolCall = NoCall
  /\ decoder = FreshDecoder
  /\ storage = NoStorage
  /\ chunks = NoChunks
  /\ dash = NoDash
  /\ procs = NoProcs

NextDecoder == JsonResponse \/ ReadLine \/ ReadDone

SpecDecoder == InitDecoder /\ [][NextDecoder]_vars

\* one call of executeTool: any name, any input, any end of its system call
InitTool ==
  /\ InitChat(0, 0, 0, 0)
  /\ decoder = NoDecoder
  /\ storage = NoStorage
  /\ chunks = NoChunks
  /\ dash = NoDash
  /\ procs = NoProcs
  /\ \E name \in ToolNames \cup {OtherTool}, input \in ToolInputs,
        sys \in SysOutcomes :
       toolCall = [NoCall EXCEPT !.state = "called", !.name = name,
                                 !.input = input, !.sys = sys]

NextTool == ExecuteToolCall

SpecTool == InitTool /\ [][NextTool]_vars

\* calls of the methods of ChatStorage, overlapping as their awaits allow
InitStorage ==
  /\ InitChat(0, 0, 0, 0)
  /\ toolCall = NoCall
  /\ decoder = NoDecoder
  /\ storage = FreshStorage
  /\ chunks = NoChunks
  /\ dash = NoDash
  /\ procs = NoProcs

NextStorage ==
  \/ GetStart
  \/ SaveStart
  \/ DeleteStart
  \/ \E o \in 1..MaxOps :
       \/ GetRead(o)
       \/ SaveOpen(o)
       \/ SaveWrite(o)
       \/ DeleteUnlink(o)

SpecStorage == InitStorage /\ [][NextStorage]_vars

\* one response body, cut into chunks in every way
InitChunks ==
  /\ InitChat(0, 0, 0, 0)
  /\ toolCall = NoCall
  /\ decoder = NoDecoder
  /\ storage = NoStorage
  /\ dash = NoDash
  /\ procs = NoProcs
  /\ \E stream \in Streams : chunks = FreshChunks(stream)

NextChunks == ReadBytes \/ ReadEnd

SpecChunks == InitChunks /\ [][NextChunks]_vars

\* calls that start, ensure and stop the embedded dashboard, overlapping as
\* their awaits allow
InitDash ==
  /\ InitChat(0, 0, 0, 0)
  /\ toolCall = NoCall
  /\ decoder = NoDecoder
  /\ storage = NoStorage
  /\ chunks = NoChunks
  /\ procs = NoProcs
  /\ dash = FreshDash

NextDash ==
  \/ DashStart
  \/ DashEnsure
  \/ DashStop
  \/ \E k \in DashCalls :
       \/ StopAwaited(k)
       \/ ConfigLoaded(k)
       \/ ServerCreated(k)
       \/ ServerStarted(k)

SpecDash == InitDash /\ [][NextDash]_vars

\* children started and stopped; timeouts fire, and a child that got a signal
\* it cannot ignore ends
InitProcs ==
  /\ InitChat(0, 0, 0, 0)
  /\ toolCall = NoCall
  /\ decoder = NoDecoder
  /\ storage = NoStorage
  /\ chunks = NoChunks
  /\ dash = NoDash
  /\ procs = FreshProcs

NextProcs ==
  \E m \in Modes :
    \/ StartProcess(m)
    \/ StopProcess(m)
    \/ TimeoutFires(m)
    \/ ExitOnSignal(m)
    \/ ExitByItself(m)

SpecProcs ==
  /\ InitProcs
  /\ [][NextProcs]_vars
  /\ \A m \in Modes : WF_vars(TimeoutFires(m)) /\ WF_vars(ExitOnSignal(m))


\* ------------------------------------------------------- reading the state
Running(i) == inv[i].pc \notin {"idle", "done"}

\* a model request of the invocation is in flight
Requesting(i) == inv[i].pc \in {"fetch", "errBody", "json", "read"}

\* the response of a turn is awaited or being read
Streaming == {"fetch", "json", "read"}

Last(s) == s[Len(s)]

CountKind(log, kind) == Cardinality({k \in 1..Len(log) : log[k].kind = kind})

BlockKinds == {"block-start", "block-delta", "block-stop"}

\* the ids of a list of tool_use blocks, of tool_result blocks
UseIds(bs) == [k \in 1..Len(bs) |-> bs[k].id]
ResultIds(bs) == [k \in 1..Len(bs) |-> bs[k].tool_use_id]

IsPermutation(s, t) ==
  /\ Len(s) = Len(t)
  /\ \A x \in {s[k] : k \in 1..Len(s)} :
       Cardinality({k \in 1..Len(s) : s[k] = x})
         = Cardinality({k \in 1..Len(t) : t[k] = x})

IsToolUseMessage(m) ==
  /\ m.role = "assistant"
  /\ IsBlockContent(m.content)
  /\ ToolUseBlocksOf(m.content.blocks) # <<>>

\* m is the tool_result message that answers the tool_use message a
AnsweredBy(a, m) ==
  /\ m.role = "user"
  /\ IsBlockContent(m.content)
  /\ \A k \in 1..Len(m.content.blocks) : m.content.blocks[k].type = "tool_result"
  /\ IsPermutation(UseIds(ToolUseBlocksOf(a.content.blocks)),
                   ResultIds(m.content.blocks))

\* every tool_use message of ms is followed by the message that answers it
Paired(ms) ==
  \A k \in 1..Len(ms) :
    IsToolUseMessage(ms[k]) => k < Len(ms) /\ AnsweredBy(ms[k], ms[k + 1])


\* the notifications sent after the abort of invocation i
AfterAbort(i) == SubSeq(notif[i], inv[i].abortMark + 1, Len(notif[i]))

HasKind(log, kinds) == \E k \in 1..Len(log) : log[k].kind \in kinds

\* ------------------------------------------------------------------ claims
\* C1: one chat:ai-send-stream invocation calls streamSingleTurn, and issues a
\* model request, at most MAX_TURNS times, also when every turn asks for tools.
C1_TurnCeiling ==
  \A i \in InvIds :
    /\ inv[i].requests <= MAX_TURNS
    /\ CountKind(notif[i], "stream-start") <= MAX_TURNS

\* every one of the MAX_TURNS turns asked for tools and the loop ended
C1_Witness ==
  \E i \in InvIds :
    /\ inv[i].pc = "done" /\ inv[i].result = "ok"
    /\ inv[i].turn = MAX_TURNS /\ inv[i].requests = MAX_TURNS

\* C2: whenever a model request of an invocation is out, and when an invocation
\* has ended, every assistant message with tool_use blocks in its conversation
\* is followed at once by the user message of exactly the matching tool_result
\* blocks.
C2_ToolUsePaired ==
  \A i \in InvIds :
    (Requesting(i) \/ inv[i].pc = "done") => Paired(inv[i].messages)

\* C3: at most one chat:ai-send-stream invocation has not returned, so at most
\* one model request is in flight.
C3_SingleFlight ==
  /\ Cardinality({i \in InvIds : Running(i)}) <= 1
  /\ Cardinality({i \in InvIds : Requesting(i)}) <= 1

\* C4: once abort() has triggered the token of an invocation, the invocation
\* sends no further stream-start and issues no further model request, whether
\* the abort came while streaming or while tools were executing.
C4_NoTurnAfterAbort ==
  \A i \in InvIds :
    inv[i].abortedAt \in Streaming \cup {"tool"} =>
      /\ ~HasKind(AfterAbort(i), {"stream-start"})
      /\ inv[i].requests = inv[i].abortRequests

C6_AbortReportedAsAborted ==
  \A i \in InvIds :
    (inv[i].pc = "done" /\ inv[i].aborted /\ inv[i].result # "ok") =>
      /\ inv[i].result = "Aborted"
      /\ Last(notif[i]) = Note("stream-error", "Request aborted")
      /\ "AI Chat error: " \o ProxyError.message \notin systemLog

\* C7: while an invocation waits on a model request or on a tool, the
\* conversation on disk equals its working copy.
C7_DiskEqualsWorkingCopy ==
  \A i \in InvIds :
    (Requesting(i) \/ inv[i].pc = "tool") =>
      store[inv[i].conv] = Stored(inv[i].messages)

\* C8: a model request of an invocation is out only when the last append has
\* been saved, and from the second turn on the conversation then ends with the
\* tool_result message that answers the previous turn; an invocation never has
\* two requests in flight.
C8_TurnsSequential ==
  \A i \in InvIds :
    /\ inv[i].inflight <= 1
    /\ Requesting(i) =>
         LET ms == inv[i].messages IN
         /\ inv[i].inflight = 1
         /\ inv[i].saved = ms
         /\ inv[i].turn > 0 =>
              /\ Len(ms) >= 2
              /\ IsToolUseMessage(ms[Len(ms) - 1])
              /\ AnsweredBy(ms[Len(ms) - 1], Last(ms))

\* the request of the second turn is out
C8_Witness == \E i \in InvIds : inv[i].pc = "fetch" /\ inv[i].turn = 1


\* the tool notifications of the current turn of a log
TurnToolNotes(log) ==
  LET starts == {k \in 1..Len(log) : log[k].kind = "stream-start"}
      from == CHOOSE k \in starts : \A j \in starts : j <= k
  IN SelectSeq(SubSeq(log, from + 1, Len(log)),
               LAMBDA n : n.kind \in {"tool-executing", "tool-result"})

RECURSIVE OneAtATime(_, _, _)
\* tool-executing and tool-result of the first n of ids, pair after pair, and
\* tool-executing of the next one when it is executing
OneAtATime(ids, n, executing) ==
  IF n = 0
  THEN IF executing THEN <<Note("tool-executing", Head(ids))>> ELSE <<>>
  ELSE <<Note("tool-executing", Head(ids)), Note("tool-result", Head(ids))>>
       \o OneAtATime(Tail(ids), n - 1, executing)

\* C9: within a turn the tools run one at a time in the order of the tool_use
\* blocks: tool-executing, executeTool, tool-result of one tool are over before
\* tool-executing of the next, and the tool_result blocks are collected, and
\* appended, in the order of the tool_use blocks.
C9_ToolsInOrder ==
  \A i \in InvIds :
    inv[i].pc \in {"tool", "saveTools"} =>
      LET ids == UseIds(ToolUseBlocksOf(inv[i].blocks))
          n == Len(inv[i].toolResults)
          executing == inv[i].pc = "tool"
      IN /\ inv[i].running = (IF executing THEN 1 ELSE 0)
         /\ n <= Len(ids)
         /\ ResultIds(inv[i].toolResults) = SubSeq(ids, 1, n)
         /\ TurnToolNotes(notif[i]) = OneAtATime(ids, n, executing)
         /\ executing => inv[i].toolIdx = n + 1 /\ n < Len(ids)
         /\ ~executing =>
              /\ n = Len(ids)
              /\ Last(inv[i].messages) =
                   AiChatMessage("user", BlockContent(inv[i].toolResults))

\* the two tools of a turn have run
C9_Witness ==
  \E i \in InvIds :
    /\ inv[i].pc = "saveTools"
    /\ ResultIds(inv[i].toolResults) = <<"t1", "t2">>

\* the working copy of invocation i ends with an assistant message that has
\* no tool_use block
TextOnlyTurn(i) ==
  /\ inv[i].messages # <<>>
  /\ Last(inv[i].messages).role = "assistant"
  /\ ~IsToolUseMessage(Last(inv[i].messages))

\* C10: when the blocks of a turn hold no tool_use, the assistant message is
\* appended and saved, stream-done is sent and the invocation returns: no
\* model request and no tool execution follows.
C10_TextOnlyEndsLoop ==
  \A i \in InvIds :
    TextOnlyTurn(i) =>
      /\ inv[i].pc \in {"saveFinal", "done"}
      /\ inv[i].inflight = 0 /\ inv[i].running = 0
      /\ inv[i].pc = "done" =>
           /\ inv[i].result = "ok"
           /\ inv[i].saved = inv[i].messages
           /\ Last(notif[i]) = Note("stream-done", "")
           /\ CountKind(notif[i], "stream-done") = 1

\* an invocation has ended on a text-only turn that followed a tool turn
C10_Witness ==
  \E i \in InvIds :
    /\ TextOnlyTurn(i) /\ inv[i].pc = "done"
    /\ inv[i].turn = 1

\* the field a tool cannot do without
RequiredField(name) ==
  CASE name = "bash" -> {"command"}
    [] name \in {"read_file", "write_file"} -> {"path"}
    [] name \in {"search_files", "grep"} -> {"pattern"}
    [] OTHER -> {}

\* the call cannot do what was asked: an unknown tool, an input that is null
\* or lacks the required field, a system call that fails (grep ending with
\* code 1 has found no match, which is no failure of the search)
ToolFailure(c) ==
  \/ c.name \notin ToolNames
  \/ c.input.kind = "null"
  \/ ~(RequiredField(c.name) \subseteq c.input.fields)
  \/ ~c.sys.ok /\ ~(c.name = "grep" /\ c.sys.code = "1")

\* C12: executeTool never throws: for every name, every input (null, no map,
\* fields missing) and every end of its system call it returns a value
\* {output, isError}, and every failure is returned with isError = TRUE.
C12_ExecuteToolNeverThrows ==
  toolCall.state = "settled" =>
    /\ ~toolCall.result.threw
    /\ toolCall.result.isError \in BOOLEAN
    /\ ToolFailure(toolCall) => toolCall.result.isError

\* a call whose child process failed, and one whose input was null, has
\* returned an error
C12_Witness ==
  /\ toolCall.state = "settled"
  /\ toolCall.result.isError /\ ~toolCall.result.threw
  /\ \/ toolCall.name = "bash" /\ toolCall.input.kind = "map"
        /\ "command" \in toolCall.input.fields /\ toolCall.sys.code = "ETIMEDOUT"
     \/ toolCall.name = "read_file" /\ toolCall.input.kind = "null"

\* ---------------------------------------------- reading the decoder's state
\* the place of the last content_block_start among the payloads read, or 0
StartPos(fed) ==
  LET starts == {k \in 1..Len(fed) : fed[k].type = "content_block_start"}
  IN IF starts = {} THEN 0 ELSE CHOOSE k \in starts : \A j \in starts : j <= k

\* the payloads read after the last content_block_start, but for the last one
OpenEvents(fed) == SubSeq(fed, StartPos(fed) + 1, Len(fed) - 1)

RECURSIVE Concat(_)
\* the fragments of a list of events, joined in order
Concat(events) ==
  IF events = <<>> THEN "" ELSE Head(events).text \o Concat(Tail(events))

\* the payload read last is the content_block_stop of a block of type
\* blockType, between whose start and stop came deltas of type deltaType only
JustCompleted(blockType, deltaType) ==
  LET fed == decoder.fed IN
  /\ decoder.path = "sse" /\ fed # <<>> /\ Last(fed) = StopEvent
  /\ StartPos(fed) > 0 /\ fed[StartPos(fed)].kind = blockType
  /\ \A k \in 1..Len(OpenEvents(fed)) :
       OpenEvents(fed)[k] \in {DeltaEvent(deltaType, t) :
                                 t \in {"a", "b", "r"} \cup JsonFragments}

\* C14: when a text block (whose content_block_start carries no text) is
\* closed after N text_delta events, the completed block's text is the
\* fragments of the deltas joined in order, for every N and every split.
C14_TextIsConcatenation ==
  (JustCompleted("text", "text_delta") /\ decoder.fed[StartPos(decoder.fed)].text = "")
    => /\ decoder.blocks # <<>>
       /\ Last(decoder.blocks) = TextOf(Concat(OpenEvents(decoder.fed)))

\* a text block that came in two deltas was completed
C14_Witness ==
  /\ JustCompleted("text", "text_delta")
  /\ decoder.fed[StartPos(decoder.fed)].text = ""
  /\ Len(OpenEvents(decoder.fed)) = 2
  /\ Last(decoder.blocks) = TextOf("ab")

\* C15: when a tool_use block is closed and its input_json_delta fragments,
\* joined, are not valid JSON, the decoder has not thrown, and the block just
\* completed is the tool_use block of the id and name of its start with
\* input = {}.
C15_InvalidJsonGivesEmptyInput ==
  LET fed == decoder.fed IN
  (/\ JustCompleted("tool_use", "input_json_delta")
   /\ Concat(OpenEvents(fed)) # ""
   /\ ~JsonParse(Concat(OpenEvents(fed))).ok)
    => /\ decoder.state \in {"reading", "returned"}
       /\ decoder.blocks # <<>>
       /\ Last(decoder.blocks) =
            ToolUseOf(fed[StartPos(fed)].id, fed[StartPos(fed)].name, EmptyMap)

\* a tool_use block whose input broke off after its first fragment was
\* completed, and the decoder reads on
C15_Witness ==
  /\ JustCompleted("tool_use", "input_json_delta")
  /\ Concat(OpenEvents(decoder.fed)) = "{\"k\":1"
  /\ decoder.state = "reading"
  /\ Last(decoder.blocks) = ToolUseOf("t1", "bash", EmptyMap)

\* C16: the input of every completed tool_use block the decoder returns is a
\* key/value map, whatever JSON text was accumulated.
C16_ToolInputIsMap ==
  \A k \in 1..Len(decoder.blocks) :
    decoder.blocks[k].type = "tool_use" => decoder.blocks[k].input.kind = "object"

RECURSIVE Encode(_, _)
\* the events of a list of blocks, the first of them with the given index:
\* start, the content in one delta (a tool input {} in none), stop
Encode(content, index) ==
  IF content = <<>> THEN <<>>
  ELSE LET b == Head(content)
           start == SseEvent("content_block_start", index, b.type,
                             "", IF b.type = "tool_use" THEN b.id ELSE "",
                             IF b.type = "tool_use" THEN b.name ELSE "")
           deltas == CASE b.type = "text" -> <<DeltaEvent("text_delta", b.text)>>
                       [] b.type = "thinking" ->
                            <<DeltaEvent("thinking_delta", b.thinking)>>
                       [] OTHER -> <<>>
       IN <<start>> \o deltas \o <<StopEvent>> \o Encode(Tail(content), index + 1)

\* C17: a stream that carries the blocks of a document returns the block list
\* the non-streaming path returns for that document.
C17_JsonPathEqualsSsePath ==
  \A content \in Docs :
    (/\ decoder.path = "sse" /\ decoder.state = "returned"
     /\ decoder.fed = Encode(content, 0))
      => decoder.blocks = JsonBlocks(content)

\* the line is one of the malformed ones: no 'data: ' prefix, blank data,
\* '[DONE]', a payload that is not JSON
Malformed(line) == ~line.prefix \/ line.kind \in {"blank", "done", "text"}

\* C18: reading a malformed line changes nothing but the count of lines read:
\* the blocks, the notifications and every local of the decoder stay as they
\* were, and the decoder reads on.
C18_MalformedLinesSkipped ==
  [][(decoder'.lines = decoder.lines + 1 /\ Malformed(decoder'.last))
       => decoder' = [decoder EXCEPT !.lines = @ + 1, !.last = decoder'.last,
                                     !.path = "sse"]]_vars

\* a payload that is not JSON was read between the deltas of a text block
C18_Witness ==
  /\ decoder.state = "reading"
  /\ decoder.last = SseLine(TRUE, "text", NoEvent)
  /\ decoder.textAccum = "a" /\ decoder.currentBlockType = "text"
  /\ decoder.lines = 3

\* C11: when a turn's request fails (fetch rejects, a non-success status, the
\* stream breaks), the invocation ends with a stream-error notification and an
\* error result, and at that moment the stored conversation is what the
\* invocation had saved before the request, with no message of the failed turn.
C11_FailedTurnLeavesStore ==
  [][\A i \in InvIds :
       (Requesting(i) /\ inv'[i].pc = "done") =>
         /\ inv'[i].result # "ok"
         /\ Last(notif'[i]).kind = "stream-error"
         /\ inv'[i].messages = inv[i].saved
         /\ store'[inv[i].conv] = Stored(inv[i].saved)]_vars

\* the messages of ms that hold a tool_result block with is_error
ErrorResults(ms) ==
  {k \in 1..Len(ms) :
     /\ IsBlockContent(ms[k].content)
     /\ \E j \in 1..Len(ms[k].content.blocks) :
          /\ ms[k].content.blocks[j].type = "tool_result"
          /\ ms[k].content.blocks[j].is_error}

HasError(results) == \E k \in 1..Len(results) : results[k].is_error

\* C13: a tool that returns isError does not end the loop: its tool_result
\* block is collected with is_error, the tools after it are executed, the
\* tool_result message is appended, and unless the invocation was aborted or
\* has used its turns the next model request is issued (an invocation rejected
\* before its loop began issues none); an invocation that was not aborted never
\* ends on an assistant message with tool_use blocks.
C13_ToolErrorRecoverable ==
  \A i \in InvIds :
    LET r == inv[i]
        tools == ToolUseBlocksOf(r.blocks)
    IN /\ (r.pc = "tool" /\ HasError(r.toolResults)) =>
            /\ r.result = "" /\ r.running = 1
            /\ r.toolIdx = Len(r.toolResults) + 1 /\ r.toolIdx <= Len(tools)
       /\ (r.pc = "saveTools" /\ HasError(r.toolResults)) =>
            /\ r.result = ""
            /\ Len(r.toolResults) = Len(tools)
            /\ Last(r.messages) = AiChatMessage("user", BlockContent(r.toolResults))
       /\ (~r.aborted /\ r.pc = "done" /\ r.messages # <<>>) =>
            ~IsToolUseMessage(Last(r.messages))
       /\ (/\ ~r.aborted /\ ErrorResults(r.messages) # {} /\ r.turn < MAX_TURNS
           /\ r.result # "rejected"
           /\ r.pc \in {"fetch", "errBody", "json", "read", "saveFinal",
                        "saveAsst", "tool", "done"}) =>
            r.requests = r.turn + 1

\* the first of two tools returned an error, the second was executed, and the
\* request of the next turn is out with both results in the conversation
C13_Witness ==
  \E i \in InvIds :
    /\ inv[i].pc = "fetch" /\ inv[i].turn = 1 /\ inv[i].requests = 2
    /\ Last(inv[i].messages) =
         AiChatMessage("user", BlockContent(<<ToolResultBlock("t1", TRUE),
                                             ToolResultBlock("t2", FALSE)>>))

\* C19: an invocation that ends on a text-only turn n, after n-1 turns that
\* asked for tools, has issued n model requests and has appended 2n messages:
\* its user message, n-1 times an assistant message with tool_use blocks and
\* the user message of the matching tool_result blocks, and the last
\* assistant message; what it appended is saved.
C19_RequestsAndGrowth ==
  \A i \in InvIds :
    (inv[i].pc = "done" /\ inv[i].result = "ok" /\ TextOnlyTurn(i)) =>
      LET ms == inv[i].messages
          n == inv[i].turn + 1
          base == Len(ms) - 2 * n
          own == AiChatMessage("user", StringContent(UserText(i)))
      IN /\ inv[i].requests = n
         /\ inv[i].saved = ms
         /\ base >= 0
         /\ ms[base + 1] = own
         /\ \A k \in 1..base : ms[k] # own
         /\ \A k \in 1..(n - 1) :
              /\ IsToolUseMessage(ms[base + 2 * k])
              /\ AnsweredBy(ms[base + 2 * k], ms[base + 2 * k + 1])

\* tools in the first turn, none in the second: four messages
C19_Witness ==
  \E i \in InvIds :
    /\ inv[i].pc = "done" /\ inv[i].result = "ok" /\ TextOnlyTurn(i)
    /\ inv[i].requests = 2 /\ Len(inv[i].messages) = 4
    /\ IsToolUseMessage(inv[i].messages[2])

\* C20: an invocation all of whose MAX_TURNS turns asked for tools ends after
\* the tool_result message of the last turn was appended and saved: it sends
\* stream-done, returns ok, and its transcript ends with that tool_result
\* message and has no tool_use message without its tool_result message.
C20_CeilingKeepsToolResults ==
  \A i \in InvIds :
    (inv[i].pc = "done" /\ inv[i].turn = MAX_TURNS) =>
      LET ms == inv[i].messages IN
      /\ inv[i].result = "ok"
      /\ inv[i].requests = MAX_TURNS
      /\ Last(notif[i]) = Note("stream-done", "")
      /\ CountKind(notif[i], "stream-done") = 1
      /\ inv[i].saved = ms
      /\ Len(ms) >= 2
      /\ IsToolUseMessage(ms[Len(ms) - 1])
      /\ AnsweredBy(ms[Len(ms) - 1], Last(ms))
      /\ Paired(ms)

\* the loop has used its MAX_TURNS turns: the user message and MAX_TURNS pairs
C20_Witness ==
  \E i \in InvIds :
    /\ inv[i].pc = "done" /\ inv[i].turn = MAX_TURNS
    /\ Len(inv[i].messages) = 2 * MAX_TURNS + 1
    /\ store[inv[i].conv] = Stored(inv[i].messages)

\* ------------------------------------------------ reading the store's state
GetsDone == {o \in 1..MaxOps : storage.ops[o].kind = "get" /\ storage.ops[o].pc = "done"}

\* C21: a get of an id that ran with no save or delete of that id under way,
\* after a save of the id that ran alone, returns a conversation equal to the
\* one saved, nested tool_use and tool_result blocks included.
C21_SaveGetRoundTrip ==
  \A o \in GetsDone :
    LET op == storage.ops[o] IN
    (op.alone /\ op.expect.t = "object") => op.result = op.expect

\* a conversation with tool_use and tool_result blocks was saved and read back
C21_Witness ==
  \E o \in GetsDone :
    /\ storage.ops[o].alone
    /\ storage.ops[o].expect = ConversationValue("c1", ToolTurnMessages)
    /\ storage.ops[o].result = ConversationValue("c1", ToolTurnMessages)

\* C22: a get of an id that was stored, overlapped by saves of that id only,
\* returns the conversation stored before or one of those being saved: never
\* null, never anything else.
C22_SaveAtomicForGet ==
  \A o \in GetsDone :
    LET op == storage.ops[o] IN
    (op.expect.t = "object" /\ \A c \in op.cand : c.t = "object") =>
      op.result \in op.cand

\* C23: delete returns without an error whether or not the file exists, the
\* file of its id is gone when it returns, the files of the other ids are as
\* they were, and a get that runs alone after a delete that ran alone returns
\* null; a second delete changes nothing.
C23_DeleteIdempotent ==
  /\ [](\A o \in 1..MaxOps : ~storage.ops[o].threw)
  /\ [](\A o \in GetsDone :
          (storage.ops[o].alone /\ storage.ops[o].expect = JsNull)
            => storage.ops[o].result = JsNull)
  /\ [][\A o \in 1..MaxOps :
          (/\ storage.ops[o].kind = "delete" /\ storage.ops[o].pc = "unlink"
           /\ storage'.ops[o].pc = "done") =>
            LET id == storage.ops[o].id IN
            /\ ~storage'.files[id].exists
            /\ \A other \in FileIds \ {id} :
                 storage'.files[other] = storage.files[other]
            /\ ~storage.files[id].exists => storage'.files = storage.files]_vars

\* a second delete of an id has returned, and the conversation of the other
\* id is still stored
C23_Witness ==
  \E o, p \in 1..MaxOps :
    /\ o < p
    /\ storage.ops[o].kind = "delete" /\ storage.ops[o].pc = "done"
    /\ storage.ops[p].kind = "delete" /\ storage.ops[p].pc = "done"
    /\ storage.ops[o].id = "c1" /\ storage.ops[p].id = "c1"
    /\ storage.ops[p].alone
    /\ storage.files["c2"].exists /\ storage.files["c2"].data # <<>>

\* C24: executeTool called with a name that is none of the six tools returns
\* {output: 'Unknown tool: <name>', isError: true} whatever the input is, and
\* begins no file-system or process operation.
C24_UnknownToolIsError ==
  (toolCall.state = "settled" /\ toolCall.name \notin ToolNames) =>
    toolCall.result = Returned("Unknown tool: " \o toolCall.name, TRUE, 0)

\* an unknown name was called with null as its input
C24_Witness ==
  /\ toolCall.state = "settled"
  /\ toolCall.name = OtherTool
  /\ toolCall.input = NullInput
  /\ toolCall.result.isError

\* C25: grep with a pattern that finds nothing (exit code 1, or exit code 0
\* with no output) returns 'No matches found' with isError false; every other
\* failure of the grep process returns isError true.
C25_GrepNoMatchIsNoError ==
  (/\ toolCall.state = "settled"
   /\ toolCall.name = "grep"
   /\ toolCall.input.kind = "map" /\ "pattern" \in toolCall.input.fields) =>
    LET sys == toolCall.sys IN
    IF (sys.ok /\ sys.stdout = "") \/ (~sys.ok /\ sys.code = "1")
    THEN toolCall.result = Returned("No matches found", FALSE, 1)
    ELSE IF ~sys.ok THEN toolCall.result.isError
    ELSE toolCall.result = Returned(sys.stdout, FALSE, 1)

\* grep ended with exit code 1 and the call reported no match
C25_Witness ==
  /\ toolCall.state = "settled"
  /\ toolCall.name = "grep"
  /\ toolCall.sys = Rejected("1")
  /\ toolCall.result = Returned("No matches found", FALSE, 1)

\* a message_stop event is among the payloads read
MessageStopRead ==
  \E k \in 1..Len(decoder.fed) : decoder.fed[k].type = "message_stop"

\* C26: once a message_stop event was read, the decoder reads no further:
\* what arrives after it adds no block and sends no notification.
C26_NothingAfterMessageStop ==
  [][MessageStopRead =>
       /\ decoder'.blocks = decoder.blocks
       /\ decoder'.notes = decoder.notes]_vars

\* the payload read last is the content_block_stop of a block of type
\* blockType, and no other content_block_stop came since the block's start
ClosedBlock(blockType) ==
  LET fed == decoder.fed IN
  /\ decoder.path = "sse" /\ fed # <<>> /\ Last(fed) = StopEvent
  /\ StartPos(fed) > 0 /\ fed[StartPos(fed)].kind = blockType
  /\ \A k \in 1..Len(OpenEvents(fed)) :
       OpenEvents(fed)[k].type # "content_block_stop"

IsDelta(e, deltaType) == e.type = "content_block_delta" /\ e.kind = deltaType

RECURSIVE FragmentsOf(_, _)
\* the fragments of the deltas of type deltaType among the events, joined
FragmentsOf(events, deltaType) ==
  IF events = <<>> THEN ""
  ELSE (IF IsDelta(Head(events), deltaType) THEN Head(events).text ELSE "")
         \o FragmentsOf(Tail(events), deltaType)

\* C27: the text of a completed text block is what its content_block_start
\* carried followed by the text_delta fragments received while it was open,
\* and nothing else; the content of a completed thinking block is the
\* thinking_delta fragments received while it was open, and nothing else.
C27_DeltasFollowBlockType ==
  LET fed == decoder.fed
      start == fed[StartPos(fed)]
  IN /\ ClosedBlock("text") =>
          Last(decoder.blocks)
            = TextOf(start.text \o FragmentsOf(OpenEvents(fed), "text_delta"))
     /\ ClosedBlock("thinking") =>
          Last(decoder.blocks)
            = ThinkingOf(FragmentsOf(OpenEvents(fed), "thinking_delta"))

\* C28: on the SSE path there are as many block-stop notifications as blocks,
\* and every block-stop is preceded by the block-start of its block with the
\* block-delta notifications of that block, and nothing else, between them.
C28_NotificationsKeepBoundaries ==
  LET notes == decoder.notes IN
  decoder.path = "sse" =>
    /\ CountKind(notes, "block-stop") = Len(decoder.blocks)
    /\ \A p \in 1..Len(notes) :
         notes[p].kind = "block-stop" =>
           \E q \in 1..(p - 1) :
             /\ notes[q].kind = "block-start"
             /\ notes[q].index = notes[p].index
             /\ \A k \in (q + 1)..(p - 1) :
                  /\ notes[k].kind = "block-delta"
                  /\ notes[k].index = notes[p].index

\* the messages end with a tool_use message and the tool_result message that
\* answers it
EndsWithToolResults(ms) ==
  /\ Len(ms) >= 2
  /\ IsToolUseMessage(ms[Len(ms) - 1])
  /\ AnsweredBy(ms[Len(ms) - 1], Last(ms))

\* abort() came while a tool of invocation i was executing, and i has ended
AbortedInTool(i) == inv[i].abortedAt = "tool" /\ inv[i].pc = "done"

C30_NoToolStartedAfterAbort ==
  \A i \in InvIds :
    inv[i].aborted => ~HasKind(AfterAbort(i), {"tool-executing"})

\* the step is a click on the abort button: the UI leaves the sending state
\* and no invocation moves
IsAbortClick ==
  /\ chatSending /\ ~chatSending'
  /\ \A i \in InvIds : inv'[i].pc = inv[i].pc

\* C31: an abort() made while an invocation is in progress, from the start of
\* its handler to its terminal notification, triggers that invocation's
\* signal.
C31_NoAbortLost ==
  [][IsAbortClick => \A i \in InvIds : Running(i) => inv'[i].aborted]_vars

\* the results of the handler when validation rejects the call
Rejections == {NotRunningText, "Conversation not found"}

Terminals(log) == CountKind(log, "stream-done") + CountKind(log, "stream-error")

\* C32: an invocation that passed validation sends exactly one terminal
\* notification, stream-done or stream-error, when it ends, none before, and
\* nothing after it.
C32_OneTerminalNotification ==
  \A i \in InvIds :
    /\ Running(i) => Terminals(notif[i]) = 0
    /\ (inv[i].pc = "done" /\ inv[i].result \notin Rejections) =>
         /\ Terminals(notif[i]) = 1
         /\ Last(notif[i]).kind \in {"stream-done", "stream-error"}

\* C34: a call that validation rejects (proxy not running, conversation not
\* found) changes no stored conversation, sends no notification and makes no
\* AbortController, in any of its steps.
C34_RejectedCallHasNoEffect ==
  /\ [](\A i \in InvIds : inv[i].result \in Rejections => notif[i] = <<>>)
  /\ [][\A i \in InvIds :
          (/\ inv[i].pc # "done"
           /\ inv'[i].pc = "done" /\ inv'[i].result \in Rejections) =>
            /\ store' = store
            /\ notif' = notif
            /\ chatAbortController' = chatAbortController]_vars

\* a call for a conversation that was deleted was rejected without a trace
C34_Witness ==
  \E i \in InvIds :
    /\ inv[i].pc = "done"
    /\ inv[i].result = "Conversation not found"
    /\ notif[i] = <<>>

RECURSIVE Alternates(_, _)
\* the roles of the messages are first, then the other one, and so on
Alternates(ms, first) ==
  \/ ms = <<>>
  \/ /\ Head(ms).role = first
     /\ Alternates(Tail(ms), IF first = "user" THEN "assistant" ELSE "user")

\* C38: the roles of the messages of every stored conversation alternate
\* user, assistant, user, ..., starting with user.
C38_RolesAlternate ==
  \A c \in ConvIds : store[c].present => Alternates(store[c].messages, "user")

\* C33: whenever the UI is in the sending state it returns to the not-sending
\* state in the end, whatever the outcome of the invocation.
C33_UiLeavesSending == chatSending ~> ~chatSending

\* the content_block_start events among the payloads read
StartsRead ==
  Cardinality({k \in 1..Len(decoder.fed) :
                 decoder.fed[k].type = "content_block_start"})

\* C36: the decoder never holds more blocks than it has read
\* content_block_start events, also when content_block_stop events are
\* repeated or come with no block open.
C36_OneBlockPerStart ==
  decoder.path = "sse" => Len(decoder.blocks) <= StartsRead

\* the place of the last block-start among the notifications, or 0
LastStartNote(notes) ==
  LET starts == {k \in 1..Len(notes) : notes[k].kind = "block-start"}
  IN IF starts = {} THEN 0 ELSE CHOOSE k \in starts : \A j \in starts : j <= k

RECURSIVE NotedText(_)
\* the fragments of the block-delta notifications of a list, joined in order
NotedText(notes) ==
  IF notes = <<>> THEN ""
  ELSE (IF Head(notes).kind = "block-delta" THEN Head(notes).text ELSE "")
         \o NotedText(Tail(notes))

\* the fragments notified since the last block-start
NotedSinceStart ==
  NotedText(SubSeq(decoder.notes, LastStartNote(decoder.notes) + 1,
                   Len(decoder.notes)))

\* C37: when a text or thinking block is completed, the fragments of the
\* block-delta notifications sent for it, joined in order, are the text the
\* completed block holds, also when its content_block_start carried text.
C37_DeltasMakeStoredText ==
  /\ ClosedBlock("text") => Last(decoder.blocks) = TextOf(NotedSinceStart)
  /\ ClosedBlock("thinking") => Last(decoder.blocks) = ThinkingOf(NotedSinceStart)

\* the locals of the read loop had the whole body come as one chunk
InOneChunk == FeedChunk(FreshChunks(chunks.stream), chunks.stream)

\* C35: the blocks returned and the notifications sent for a body do not
\* depend on where the transport cut it into chunks: they are those of the
\* body read as one chunk.
C35_ChunkingDoesNotMatter ==
  chunks.state = "returned" =>
    /\ chunks.d.blocks = InOneChunk.d.blocks
    /\ chunks.d.notes = InOneChunk.d.notes

\* a body came in three chunks or more, one of them ending inside the JSON
\* text of the first line, and gave a block
C35_Witness ==
  /\ chunks.state = "returned"
  /\ 2 \in chunks.cuts
  /\ Cardinality(chunks.cuts) >= 3
  /\ Len(chunks.stream) >= 4
  /\ SubSeq(chunks.stream, 1, 4) = <<"p", "s1", "s2", "nl">>
  /\ chunks.d.blocks # <<>>

\* the servers that exist: created or started, and not stopped
LiveServers == {k \in DashCalls : dash.servers[k].status \in {"created", "started"}}

\* C39: at most one dashboard server exists at a time, and running is true
\* exactly when dashboardServer holds a started server.
C39_OneDashboardServer ==
  /\ Cardinality(LiveServers) <= 1
  /\ dash.running <=>
       /\ dash.dashboardServer # 0
       /\ dash.servers[dash.dashboardServer].status = "started"

\* C40: a call of stop that waits for a running child resolves in the end,
\* with running = false and pid = null; a child that has not ended when the
\* timeout fires has been sent SIGKILL.
C40_StopResolves ==
  /\ \A m \in Modes :
       (procs.of[m].stop = "waiting") ~>
         (procs.of[m].stop = "resolved" /\ ~procs.of[m].running /\ procs.of[m].pid = 0)
  /\ [](\A m \in Modes :
          (procs.of[m].timeout = "fired" /\ procs.of[m].child = "alive")
            => HasSignal(procs.of[m], "SIGKILL"))

====
